---- MODULE Spec2Model ----
(***************************************************************************)
(* A model of the motion cache (CacheManager) and of the provider registry *)
(* (ProviderFactory) of smart-vim-motions.  The cache is a                 *)
(* TTL-expiring, capacity-bounded map from request fingerprints to motion  *)
(* responses, persisted to the editor's global state after mutations.  The *)
(* registry keeps provider classes by type and provider instances by an    *)
(* instance key made of the type, a hash of the configuration and the time *)
(* of the call.                                                            *)
(*                                                                         *)
(* Each map is a JavaScript Map: it iterates in insertion order, and an    *)
(* overwrite keeps the key's place.  It is modelled as a sequence of       *)
(* <<key, value>> pairs, the shape of Array.from(map.entries()).           *)
(***************************************************************************)
EXTENDS Integers, Sequences, FiniteSets, TLC

\* ------------------------------------------------------------------ bounds

\* The clock runs from 0 to MaxTime.
MaxTime == 2
\* Calls made on one behaviour, after the constructor (clock ticks and
\* completions of writes in flight are not calls).
MaxCalls == 2
\* The larger of the two capacities (maxSize) used; from 4 entries on an
\* eviction pass removes at least one entry.
MaxMaxSize == 4

\* createProvider calls started on one behaviour.
MaxCreates == 2
\* The clock of the registry's behaviours runs from 0 to MaxClock.
MaxClock == 1
\* ClaudeProvider objects constructed on one behaviour of the provider's
\* own life cycle.
MaxProviders == 1

\* Keys the callers use: one that persisted arrays hold, one they do not.
Keys == {"k1", "k9"}
Providers == {"claude", "openai"}
\* Time-to-live values (ttl), in clock ticks.
TTLs == {1, 2}
\* Capacities (maxSize): the smallest, and one an eviction pass can serve.
Sizes == {1, MaxMaxSize}

\* MotionResponse: the fields the cache reads are the provider, the time
\* of calculation and the confidence (here in hundredths), next to the
\* payload.  Time is counted from the start of the session, so a motion
\* calculated before it has a negative calculatedAt.
Motions == {[keys |-> "5j", provider |-> "claude", calculatedAt |-> -1,
             confidence |-> 90],
            [keys |-> "2w", provider |-> "openai", calculatedAt |-> -2,
             confidence |-> 50]}
\* The lengths of the keys: "k1" stands for a key of 50 characters, "k9"
\* for one of 51, the keys of the persisted arrays for shorter ones.
KeyLength(k) == CASE k = "k1" -> 50 [] k = "k9" -> 51 [] OTHER -> 2

\* ProviderType values: "claude" is registered by the static block of
\* ProviderFactory, "openai" by no code of the repository.
ProviderTypes == {"claude", "openai"}
\* Configurations passed to createProvider: two with the same properties in
\* different insertion orders, and a different one.
Configs == {<<<<"apiKey", "sk-1">>, <<"model", "haiku">>>>,
            <<<<"model", "haiku">>, <<"apiKey", "sk-1">>>>,
            <<<<"apiKey", "sk-2">>>>}
\* What createProvider is called with: "claude" with each configuration,
\* "openai" with one.
CreateInputs ==
  {<<"claude", config>> : config \in Configs}
    \cup {<<"openai", <<<<"apiKey", "sk-2">>>>>>}
\* Callers of createProvider whose calls can be in flight together; a call
\* is made by the first caller that has none in flight.
Callers == {1, 2}

VARIABLES
  now,        \* Date.now()
  cache,      \* this.cache, in insertion order: Seq(<<key, CacheEntry>>)
  hitCount,   \* this.hitCount
  missCount,  \* this.missCount
  ttl,        \* this.ttl
  maxSize,    \* this.maxSize
  stored,     \* globalState[CACHE_KEY]: the persisted CacheEntry[]
  pending,    \* globalState.update calls started and not awaited, in flight
  lastOp,     \* the call that just returned: its arguments, locals and result
  getCalls,   \* history: get calls since construction or the last clearCache
  inserted,   \* history: what set stored and no delete, clear, provider
              \* clear, eviction or overwrite has taken out since
  calls,      \* history: calls made so far
  setting     \* per caller: its set call when sets are started without
              \* awaiting one another, in flight or returned

VARIABLES
  providers,  \* ProviderFactory.providers: the registered types
  instances,  \* ProviderFactory.instances, in insertion order:
              \* Seq(<<instanceKey, provider>>), a provider being its index
              \* in objs
  objs,       \* every provider object createProvider has constructed
  creating,   \* per caller: its createProvider call, in flight or returned
  creates,    \* history: createProvider calls started so far
  regOp       \* history: the registry call, other than createProvider,
              \* that just returned: its arguments and how it ended

cacheVars == <<cache, hitCount, missCount, ttl, maxSize, stored, pending,
               lastOp, getCalls, inserted, calls, setting>>

regVars == <<providers, instances, objs, creating, creates, regOp>>

vars == <<now, cache, hitCount, missCount, ttl, maxSize, stored, pending,
          lastOp, getCalls, inserted, calls, setting,
          providers, instances, objs, creating, creates, regOp>>

\* ------------------------------------------------------------ Map helpers

\* An entry filed under one provider whichever calculated the motion.
MakeEntryOneProvider(k, m, t, life) ==
  [key |-> k, motion |-> m, expiresAt |-> t + life, provider |-> "claude"]

\* An entry that lives one time unit whatever the TTL is.
MakeEntryFixedLife(k, m, t, life) ==
  [key |-> k, motion |-> m, expiresAt |-> t + 1, provider |-> m.provider]

\* CacheEntry, as set builds it.
MakeEntry(k, m, t, life) ==
  [key |-> k, motion |-> m, expiresAt |-> t + life, provider |-> m.provider]

MapKeys(c) == {c[i][1] : i \in 1..Len(c)}

MapHas(c, k) == k \in MapKeys(c)

\* Map.get of a key the map holds.
MapGet(c, k) == c[CHOOSE i \in 1..Len(c) : c[i][1] = k][2]

\* Map.set: an existing key keeps its place, a new key goes last.
MapSet(c, k, e) ==
  IF MapHas(c, k)
    THEN [i \in 1..Len(c) |-> IF c[i][1] = k THEN <<k, e>> ELSE c[i]]
    ELSE Append(c, <<k, e>>)

\* Map.delete.
MapDelete(c, k) == SelectSeq(c, LAMBDA p : p[1] # k)

\* Array.from(cache.values()).
MapValues(c) == [i \in 1..Len(c) |-> c[i][2]]

\* ------------------------------------------------------- pure functions

\* A get that treats the deadline itself as expired.
IsExpiredAtDeadline(entry, t) == entry.expiresAt <= t

\* get's expiry test: entry.expiresAt < Date.now().
IsExpired(entry, t) == entry.expiresAt < t

\* loadCache's test for keeping a persisted entry: entry.expiresAt > now.
LoadKeeps(entry, t) == entry.expiresAt > t

\* A sweep that removes an entry at its expiry time too.
CleanupRemovesAtDeadline(entry, t) == entry.expiresAt <= t

\* cleanupExpired's test for removing an entry: entry.expiresAt < now.
CleanupRemoves(entry, t) == entry.expiresAt < t

\* set's capacity test: this.cache.size >= this.maxSize.
AtCapacity(size, max) == size >= max

\* updateConfig's test for evicting: this.cache.size > this.maxSize.
OverCapacity(size, max) == size > max

\* The comparator of entries.sort: a[1].expiresAt - b[1].expiresAt.
CompareEntries(a, b) == a[2].expiresAt - b[2].expiresAt

\* An eviction that forgets to sort: insertion order.
SortEntriesUnsorted(s) == s

\* Array.prototype.sort with that comparator: ascending and stable, so
\* pairs that compare equal keep their insertion order.
SortEntries(s) ==
  LET before(j, i) == \/ CompareEntries(s[j], s[i]) < 0
                      \/ (CompareEntries(s[j], s[i]) = 0 /\ j < i)
      rank(i) == Cardinality({j \in 1..Len(s) : before(j, i)}) + 1
  IN  [r \in 1..Len(s) |-> s[CHOOSE i \in 1..Len(s) : rank(i) = r]]

\* A quarter of the entries counted together with the one about to be set.
EvictCountWithIncoming(n) == (n + 1) \div 4

\* Math.floor(entries.length * 0.25).
EvictCount(n) == n \div 4

\* evictOldEntries: the map after the pass and keysToRemove.
EvictOldEntries(c) ==
  LET entries == SortEntries(c)
      toRemove == EvictCount(Len(entries))
      keysToRemove == [i \in 1..toRemove |-> entries[i][1]]
      gone == {keysToRemove[i] : i \in 1..toRemove}
  IN  [cache |-> SelectSeq(c, LAMBDA p : p[1] \notin gone),
       keysToRemove |-> keysToRemove]

\* A saveCache without its try/catch: the rejection reaches the caller.
SaveCacheRethrows(c, disk, ok) ==
  [disk |-> IF ok THEN MapValues(c) ELSE disk,
   logged |-> FALSE,
   threw |-> ~ok]

\* saveCache with its globalState.update awaited: the array written (or the
\* old content when update rejects), whether the failure was logged by the
\* catch block, and whether an error left saveCache.
SaveCache(c, disk, ok) ==
  [disk |-> IF ok THEN MapValues(c) ELSE disk,
   logged |-> ~ok,
   threw |-> FALSE]

\* loadCache over the persisted array, from entry i on, into map c.
RECURSIVE LoadFrom(_, _, _, _)
LoadFrom(data, i, t, c) ==
  IF i > Len(data) THEN c
  ELSE LoadFrom(data, i + 1, t,
                IF LoadKeeps(data[i], t) THEN MapSet(c, data[i].key, data[i])
                                         ELSE c)

\* loadCache: the map a new CacheManager starts with.
LoadCache(data, t) == LoadFrom(data, 1, t, <<>>)

\* A catch block that only logs: what was set before the failure stays.
LoadCatchKeeps(partial) ==
  [cache |-> partial, logged |-> TRUE, threw |-> FALSE]

\* loadCache's catch block, entered with the map as the try block left it:
\* the failure is logged, the map is cleared, nothing is rethrown.
LoadCatch(partial) ==
  [cache |-> <<>>, logged |-> TRUE, threw |-> FALSE]

\* loadCache when the try block throws on reading entry `bad` of the
\* persisted data (a null or unreadable element), the entries before it
\* having gone through the loop; bad = 0: globalState.get itself throws, or
\* what it returns is not iterable.  loaded is loadedCount at the throw.
LoadCacheFailing(data, bad, t) ==
  LET partial == LoadFrom(SubSeq(data, 1, bad - 1), 1, t, <<>>)
      caught == LoadCatch(partial)
  IN  [cache |-> caught.cache, logged |-> caught.logged,
       threw |-> caught.threw, loaded |-> Len(partial)]

\* getHitRate, as the exact fraction <<numerator, denominator>>.
GetHitRate(hits, misses) ==
  LET total == hits + misses
  IN  IF total = 0 THEN <<0, 1>> ELSE <<hits * 100, total>>

\* A provider clear that forgets its filter: every key.
ProviderKeysAll(c, provider) == [i \in 1..Len(c) |-> c[i][1]]

\* clearProviderCache's keysToDelete, in iteration order.
ProviderKeys(c, provider) ==
  LET hit == SelectSeq(c, LAMBDA p : p[2].provider = provider)
  IN  [i \in 1..Len(hit) |-> hit[i][1]]

\* cleanupExpired's keysToDelete, in iteration order.
ExpiredKeys(c, t) ==
  LET hit == SelectSeq(c, LAMBDA p : CleanupRemoves(p[2], t))
  IN  [i \in 1..Len(hit) |-> hit[i][1]]

\* A deletion of keys that deletes none.
DeleteAllNothing(c, ks) == c

\* The map without the keys of the sequence ks.
DeleteAll(c, ks) ==
  SelectSeq(c, LAMBDA p : \A i \in 1..Len(ks) : ks[i] # p[1])

\* A get that takes every entry there is for live.
GetOutcomeIgnoresExpiry(c, k, t) ==
  IF ~MapHas(c, k) THEN "missing" ELSE "hit"

\* The branch get takes: no entry, an expired entry, a live entry.
GetOutcome(c, k, t) ==
  IF ~MapHas(c, k) THEN "missing"
  ELSE IF IsExpired(MapGet(c, k), t) THEN "expired"
  ELSE "hit"

\* A get that starts the counters again on a miss.
CountGetResets(outcome, hits, misses) ==
  IF outcome = "hit" THEN [hits |-> hits + 1, misses |-> misses]
                     ELSE [hits |-> 0, misses |-> 1]

\* A get that forgets missCount++ on the expired branch.
CountGetSkipsExpired(outcome, hits, misses) ==
  [hits |-> IF outcome = "hit" THEN hits + 1 ELSE hits,
   misses |-> IF outcome = "missing" THEN misses + 1 ELSE misses]

\* get's counting: missCount++ on the two miss branches, hitCount++ on a hit.
CountGet(outcome, hits, misses) ==
  [hits |-> IF outcome = "hit" THEN hits + 1 ELSE hits,
   misses |-> IF outcome = "hit" THEN misses ELSE misses + 1]

\* ------------------------------------------- the registry's instance key

\* The UTF-16 code units of the strings configurations are made of, and of
\* the punctuation JSON.stringify writes.
CodeUnits(str) ==
  CASE str = "apiKey" -> <<97, 112, 105, 75, 101, 121>>
    [] str = "model"  -> <<109, 111, 100, 101, 108>>
    [] str = "sk-1"   -> <<115, 107, 45, 49>>
    [] str = "sk-2"   -> <<115, 107, 45, 50>>
    [] str = "haiku"  -> <<104, 97, 105, 107, 117>>
    [] str = "{"      -> <<123>>
    [] str = "}"      -> <<125>>
    [] str = ":"      -> <<58>>
    [] str = ","      -> <<44>>
    [] str = "quote"  -> <<34>>

\* A configuration object: its own properties in insertion order, each a
\* <<name, value>> pair of strings.
ConfigNames(config) == [i \in 1..Len(config) |-> config[i][1]]

\* The order of Array.prototype.sort without a comparator: by code units,
\* a proper prefix first.
LexLess(a, b) ==
  \/ \E i \in 1..Len(a) :
        /\ i <= Len(b)
        /\ a[i] < b[i]
        /\ \A j \in 1..(i - 1) : a[j] = b[j]
  \/ /\ Len(a) < Len(b)
     /\ \A j \in 1..Len(a) : a[j] = b[j]

\* A key list left as Object.keys returns it: insertion order.
SortNamesUnsorted(names) == names

\* Object.keys(config).sort(): the (distinct) names in ascending order.
SortNames(names) ==
  LET rank(i) == Cardinality({j \in 1..Len(names) :
                    LexLess(CodeUnits(names[j]), CodeUnits(names[i]))}) + 1
  IN  [r \in 1..Len(names) |-> names[CHOOSE i \in 1..Len(names) : rank(i) = r]]

RECURSIVE Concat(_)
Concat(parts) ==
  IF parts = <<>> THEN <<>> ELSE Head(parts) \o Concat(Tail(parts))

\* The value of property name of config.
ConfigValue(config, name) ==
  config[CHOOSE i \in 1..Len(config) : config[i][1] = name][2]

\* JSON.stringify(config, replacer) with an array replacer, for a flat
\* object of string values: the listed properties, in the order listed.
JsonStringify(config, replacer) ==
  LET member(i) ==
        (IF i = 1 THEN <<>> ELSE CodeUnits(","))
          \o CodeUnits("quote") \o CodeUnits(replacer[i]) \o CodeUnits("quote")
          \o CodeUnits(":")
          \o CodeUnits("quote") \o CodeUnits(ConfigValue(config, replacer[i]))
          \o CodeUnits("quote")
  IN  CodeUnits("{")
        \o Concat([i \in 1..Len(replacer) |-> member(i)])
        \o CodeUnits("}")

\* A 32-bit integer in two's complement, as <<high, low>> 16-bit halves.
Half == 65536
Word(hi, lo) == <<hi % Half, lo % Half>>

\* hash << 5.
ShiftLeft5(h) == Word(h[1] * 32 + (h[2] * 32) \div Half, h[2] * 32)

\* a - b, and a + char for a code unit, as `hash & hash` leaves them:
\* wrapped to 32 bits.
Sub32(a, b) ==
  LET lo == a[2] - b[2]
  IN  Word(a[1] - b[1] - (IF lo < 0 THEN 1 ELSE 0) + Half, lo + Half)
AddChar(a, char) == Word(a[1] + (a[2] + char) \div Half, a[2] + char)

\* One round of the loop of hashConfig.
HashStep(hash, char) == AddChar(Sub32(ShiftLeft5(hash), hash), char)

\* The loop of hashConfig from character i on; each round's hash is a
\* 32-bit integer (its halves are within 16 bits) before the next begins.
RECURSIVE HashFrom(_, _, _)
HashFrom(str, i, hash) ==
  IF i > Len(str) THEN hash
  ELSE LET round == HashStep(hash, str[i])
       IN  IF round[1] < Half /\ round[2] < Half
             THEN HashFrom(str, i + 1, round)
             ELSE <<>>

\* Math.abs of a 32-bit integer: the magnitude, -2^31 giving 2^31.
Abs32(h) ==
  IF h[1] < Half \div 2 THEN h
  ELSE Word(Half - 1 - h[1] + (IF h[2] = 0 THEN 1 ELSE 0), Half - h[2])

\* hashConfig(config) at time t: Math.abs(hash).toString(36) + "_" +
\* Date.now().  The base-36 text is kept as the number it writes.
HashConfig(config, t) ==
  LET str == JsonStringify(config, SortNames(ConfigNames(config)))
  IN  [hash |-> Abs32(HashFrom(str, 1, <<0, 0>>)), stamp |-> t]

\* instanceKey: `${type}_${configHash}`, as its three "_"-separated parts.
InstanceKey(type, config, t) ==
  LET configHash == HashConfig(config, t)
  IN  [type |-> type, hash |-> configHash.hash, stamp |-> configHash.stamp]

\* Two configurations with the same properties and values.
SameConfig(a, b) ==
  {a[i] : i \in 1..Len(a)} = {b[i] : i \in 1..Len(b)}

\* ------------------------------------------------------------ the state

\* What a call leaves for its caller and in its locals:
\*   result        get's return value, {} for null
\*   flag          delete's return value
\*   evictRan      evictOldEntries was called
\*   evicted       evictOldEntries's keysToRemove
\*   removed       keysToDelete of clearProviderCache / cleanupExpired
\*   save          "none": saveCache not called; "ok" / "failed": awaited, and
\*                 update resolved / rejected; "started": called, not awaited
\*   logged        saveCache's catch block logged the failure
\*   threw         an error reached the caller
\*   loaded        loadCache's loadedCount when its try block threw
NoCall ==
  [op |-> "none", key |-> "", provider |-> "", result |-> {}, flag |-> FALSE,
   evictRan |-> FALSE, evicted |-> <<>>, removed |-> <<>>,
   save |-> "none", logged |-> FALSE, threw |-> FALSE, loaded |-> 0]

Saved(call, sv, ok) ==
  [call EXCEPT !.save = IF ok THEN "ok" ELSE "failed",
               !.logged = sv.logged, !.threw = sv.threw]

SeqToSet(s) == {s[i] : i \in 1..Len(s)}

\* The history `inserted` without the keys ks.
Forget(ins, ks) == {r \in ins : r.key \notin ks}

\* Persisted arrays an earlier session can have left behind, as of time 0:
\* entry i was stored under InitKeys[i] and expires at the given time.
InitKeys == <<"k1", "k2", "k3", "k4", "k5", "k6", "k7", "k8">>
InitMotion(i) == CHOOSE m \in Motions :
                   m.provider = (IF i % 2 = 1 THEN "claude" ELSE "openai")
StoreOf(exps) ==
  [i \in 1..Len(exps) |-> [key |-> InitKeys[i], motion |-> InitMotion(i),
                           expiresAt |-> exps[i],
                           provider |-> InitMotion(i).provider]]
InitialStores == {StoreOf(<<>>),
                  StoreOf(<<3, 2, 4, 1>>),
                  StoreOf(<<3, 1, 4, 1, 5, 2, 2, 3>>)}

\* A provider object as `new ProviderClass()` leaves it (BaseLLMProvider's
\* field initialisers, and ClaudeProvider's `client`: TRUE when the field
\* holds a ClaudeClient), with two history fields:
\*   passed         a testConnection of it has returned true
\*   disposed       dispose() has been called on it
NewProvider(type) ==
  [type |-> type, config |-> <<>>, isInitialized |-> FALSE,
   passed |-> FALSE, disposed |-> FALSE, client |-> FALSE]

\* initialize(config): the configuration is copied, then validated (ok: the
\* validation passes), and only then is the provider marked initialized
\* and given its client; a validation that throws leaves both as they were.
InitializeObj(o, config, ok) ==
  [o EXCEPT !.config = config,
            !.isInitialized = IF ok THEN TRUE ELSE @,
            !.client = IF ok THEN TRUE ELSE @]

\* A dispose() that does nothing.
DisposeObjNothing(o) == o

\* dispose(): the provider is reset; the client field is not touched.
DisposeObj(o) ==
  [o EXCEPT !.isInitialized = FALSE, !.config = <<>>, !.disposed = TRUE]

\* The objects after testConnection of object id settled with r.
Tested(os, id, r) ==
  IF r = "true" THEN [os EXCEPT ![id] = [@ EXCEPT !.passed = TRUE]] ELSE os

\* What createProvider can end with: nothing yet, or an error thrown to
\* the caller.  A ProviderError carries a provider type; `cause` is
\*   "unknown"     Unknown provider type
\*   "test"        the provider failed its connection test
\*   "provider"    a ProviderError of the provider itself, rethrown
\*   "wrapped"     another error, wrapped ("Failed to create ... provider")
\*   "raw"         an error that is not a ProviderError
NoError == [kind |-> "none", provider |-> "", cause |-> ""]
ProviderError(type, cause) ==
  [kind |-> "ProviderError", provider |-> type, cause |-> cause]
RawError == [kind |-> "Error", provider |-> "", cause |-> "raw"]

\* A createProvider call: where it is (pc), its arguments and locals, what
\* it returned or threw, and (history) what it did, in order:
\*   pc        "idle" | "testExisting" | "initializing" | "testing" | "done"
\*   existing  existingInstance, 0 when undefined
\*   provider  the instance constructed, 0 when none
\*   returned  the instance returned, 0 when none
\*   init      how initialize settled: "ok" | "ProviderError" | "Error"
\*   isWorking how the last testConnection settled: "true" | "false" |
\*             "throws"
NoKey == [type |-> "", hash |-> <<0, 0>>, stamp |-> 0]
IdleCreate ==
  [pc |-> "idle", type |-> "", config |-> <<>>, key |-> NoKey,
   existing |-> 0, provider |-> 0, returned |-> 0, error |-> NoError,
   init |-> "", isWorking |-> "", events |-> <<>>]

Event(e, id) == [e |-> e, id |-> id]

\* A call of unregisterProvider, getProviderInfo, getInstanceStats,
\* cleanupInstances or dispose:
\*   type     its provider type, "" when it takes none
\*   maxAge   cleanupInstances' argument
\*   made     the provider objects it constructed and kept out of the map,
\*            as it left them
\*   error    what it threw, NoError when it returned
\*   logged   console.error calls made
\*   result   what getInstanceStats returned, as the one element of a set
NoRegOp ==
  [op |-> "", type |-> "", maxAge |-> 0, made |-> <<>>, error |-> NoError,
   logged |-> 0, result |-> {}]

\* A set call started without waiting for the others: where it is (pc),
\* its arguments, and the array its saveCache handed to update:
\*   pc        "idle" | "evicted" (at the await on evictOldEntries) |
\*             "saving" (at the await on saveCache)
IdleSet == [pc |-> "idle", key |-> "", motion |-> <<>>, saved |-> <<>>]

\* The static fields and the static block of ProviderFactory.
RegistryStatic ==
  /\ providers = {"claude"}
  /\ instances = <<>>
  /\ objs = <<>>
  /\ creating = [c \in Callers |-> IdleCreate]
  /\ creates = 0
  /\ regOp = NoRegOp

\* The constructor: field initialisers, then loadCache (which runs to its
\* end inside the constructor, as it awaits nothing).
Construct(disk) ==
  /\ now = 0
  /\ stored = disk
  /\ cache = LoadCache(disk, now)
  /\ hitCount = 0
  /\ missCount = 0
  /\ ttl \in TTLs
  /\ maxSize \in Sizes
  /\ pending = <<>>
  /\ lastOp = NoCall
  /\ getCalls = 0
  /\ inserted = {}
  /\ calls = 0
  /\ setting = [c \in Callers |-> IdleSet]

Init == \E disk \in InitialStores : Construct(disk) /\ RegistryStatic

\* ---------------------------------------------------------------- actions

\* get(key), its saveCache awaited; ok: globalState.update resolves.
Get(k, ok) ==
  /\ calls < MaxCalls
  /\ calls' = calls + 1
  /\ getCalls' = getCalls + 1
  /\ UNCHANGED <<now, ttl, maxSize, pending, inserted>>
  /\ LET outcome == GetOutcome(cache, k, now)
         counts == CountGet(outcome, hitCount, missCount)
         call == [NoCall EXCEPT !.op = "get", !.key = k]
     IN  /\ hitCount' = counts.hits
         /\ missCount' = counts.misses
         /\ CASE outcome = "missing" ->
                   /\ lastOp' = call
                   /\ UNCHANGED <<cache, stored>>
              [] outcome = "expired" ->
                   LET c2 == MapDelete(cache, k)
                       sv == SaveCache(c2, stored, ok)
                   IN  /\ cache' = c2
                       /\ stored' = sv.disk
                       /\ lastOp' = Saved(call, sv, ok)
              [] outcome = "hit" ->
                   /\ lastOp' = [call EXCEPT
                                   !.result = {MapGet(cache, k).motion}]
                   /\ UNCHANGED <<cache, stored>>

\* set(key, motion), its evictOldEntries and saveCache awaited.
Set(k, m, ok) ==
  /\ calls < MaxCalls
  /\ calls' = calls + 1
  /\ UNCHANGED <<now, ttl, maxSize, pending, hitCount, missCount, getCalls>>
  /\ LET full == AtCapacity(Len(cache), maxSize)
         ev == IF full THEN EvictOldEntries(cache)
                       ELSE [cache |-> cache, keysToRemove |-> <<>>]
         c2 == MapSet(ev.cache, k, MakeEntry(k, m, now, ttl))
         sv == SaveCache(c2, stored, ok)
     IN  /\ cache' = c2
         /\ stored' = sv.disk
         /\ inserted' = Forget(inserted, SeqToSet(ev.keysToRemove) \cup {k})
                          \cup {[key |-> k, motion |-> m, at |-> now,
                                 ttl |-> ttl]}
         /\ lastOp' = Saved([NoCall EXCEPT !.op = "set", !.key = k,
                                           !.evictRan = full,
                                           !.evicted = ev.keysToRemove],
                            sv, ok)

\* delete(key).
Delete(k, ok) ==
  /\ calls < MaxCalls
  /\ calls' = calls + 1
  /\ UNCHANGED <<now, ttl, maxSize, pending, hitCount, missCount, getCalls>>
  /\ LET deleted == MapHas(cache, k)
         c2 == MapDelete(cache, k)
         sv == SaveCache(c2, stored, ok)
         call == [NoCall EXCEPT !.op = "delete", !.key = k, !.flag = deleted]
     IN  /\ cache' = c2
         /\ inserted' = Forget(inserted, {k})
         /\ IF deleted
              THEN stored' = sv.disk /\ lastOp' = Saved(call, sv, ok)
              ELSE stored' = stored /\ lastOp' = call

\* clearCache().
ClearCache(ok) ==
  /\ calls < MaxCalls
  /\ calls' = calls + 1
  /\ UNCHANGED <<now, ttl, maxSize, pending>>
  /\ LET sv == SaveCache(<<>>, stored, ok)
     IN  /\ cache' = <<>>
         /\ hitCount' = 0
         /\ missCount' = 0
         /\ getCalls' = 0
         /\ inserted' = {}
         /\ stored' = sv.disk
         /\ lastOp' = Saved([NoCall EXCEPT !.op = "clearCache"], sv, ok)

\* clearProviderCache(provider).
ClearProviderCache(provider, ok) ==
  /\ calls < MaxCalls
  /\ calls' = calls + 1
  /\ UNCHANGED <<now, ttl, maxSize, pending, hitCount, missCount, getCalls>>
  /\ LET keysToDelete == ProviderKeys(cache, provider)
         c2 == DeleteAll(cache, keysToDelete)
         sv == SaveCache(c2, stored, ok)
         call == [NoCall EXCEPT !.op = "clearProviderCache",
                                !.provider = provider,
                                !.removed = keysToDelete]
     IN  /\ cache' = c2
         /\ inserted' = Forget(inserted, SeqToSet(keysToDelete))
         /\ IF Len(keysToDelete) > 0
              THEN stored' = sv.disk /\ lastOp' = Saved(call, sv, ok)
              ELSE stored' = stored /\ lastOp' = call

\* updateConfig(options); an option is {} when undefined, {v} when given.
UpdateConfig(optTtl, optMaxSize) ==
  /\ calls < MaxCalls
  /\ calls' = calls + 1
  /\ UNCHANGED <<now, pending, hitCount, missCount, getCalls, stored>>
  /\ ttl' = IF optTtl = {} THEN ttl ELSE CHOOSE v \in optTtl : TRUE
  /\ maxSize' = IF optMaxSize = {} THEN maxSize
                                   ELSE CHOOSE v \in optMaxSize : TRUE
  /\ LET evict == optMaxSize # {} /\ OverCapacity(Len(cache), maxSize')
         ev == IF evict THEN EvictOldEntries(cache)
                        ELSE [cache |-> cache, keysToRemove |-> <<>>]
     IN  /\ cache' = ev.cache
         /\ inserted' = Forget(inserted, SeqToSet(ev.keysToRemove))
         /\ lastOp' = [NoCall EXCEPT !.op = "updateConfig",
                                     !.evictRan = evict,
                                     !.evicted = ev.keysToRemove]

\* cleanupExpired(), the timer callback; its saveCache is not awaited: the
\* array is taken and update is called before cleanupExpired returns, and
\* the write completes later.  One such write is in flight at a time.
CleanupExpired ==
  /\ calls < MaxCalls
  /\ calls' = calls + 1
  /\ UNCHANGED <<now, ttl, maxSize, hitCount, missCount, getCalls, stored,
                 inserted>>
  /\ LET keysToDelete == ExpiredKeys(cache, now)
         c2 == DeleteAll(cache, keysToDelete)
         call == [NoCall EXCEPT !.op = "cleanupExpired",
                                !.removed = keysToDelete]
     IN  /\ cache' = c2
         /\ IF Len(keysToDelete) > 0
              THEN /\ pending = <<>>
                   /\ pending' = Append(pending, MapValues(c2))
                   /\ lastOp' = [call EXCEPT !.save = "started"]
              ELSE /\ pending' = pending
                   /\ lastOp' = call

\* A globalState.update that was not awaited completes: it resolves and the
\* array is stored, or it rejects and saveCache's catch block logs it.
CompleteWrite(ok) ==
  /\ pending # <<>>
  /\ pending' = Tail(pending)
  /\ stored' = IF ok THEN Head(pending) ELSE stored
  /\ lastOp' = [NoCall EXCEPT !.op = "writeDone",
                              !.save = IF ok THEN "ok" ELSE "failed",
                              !.logged = ~ok]
  /\ UNCHANGED <<now, cache, hitCount, missCount, ttl, maxSize, getCalls,
                 inserted, calls>>

\* The extension host restarts: a new CacheManager is constructed over the
\* same global state, with the same configuration.  Writes still in flight
\* are lost with the old process.
Restart ==
  /\ calls < MaxCalls
  /\ calls' = calls + 1
  /\ cache' = LoadCache(stored, now)
  /\ hitCount' = 0
  /\ missCount' = 0
  /\ getCalls' = 0
  /\ inserted' = {}
  /\ pending' = <<>>
  /\ lastOp' = [NoCall EXCEPT !.op = "construct"]
  /\ UNCHANGED <<now, ttl, maxSize, stored>>

\* The extension host restarts and loadCache fails: reading the global
\* state throws, or the data read is corrupt from entry `bad` on.
RestartCorrupt(bad) ==
  /\ calls < MaxCalls
  /\ calls' = calls + 1
  /\ LET ld == LoadCacheFailing(stored, bad, now)
     IN  /\ cache' = ld.cache
         /\ lastOp' = [NoCall EXCEPT !.op = "constructCorrupt",
                                     !.logged = ld.logged,
                                     !.threw = ld.threw,
                                     !.loaded = ld.loaded]
  /\ hitCount' = 0
  /\ missCount' = 0
  /\ getCalls' = 0
  /\ inserted' = {}
  /\ pending' = <<>>
  /\ UNCHANGED <<now, ttl, maxSize, stored>>

\* The clock advances.
Tick ==
  /\ now < MaxTime
  /\ now' = now + 1
  /\ lastOp' = NoCall
  /\ UNCHANGED <<cache, hitCount, missCount, ttl, maxSize, stored, pending,
                 getCalls, inserted, calls>>

Options(S) == {{}} \cup {{v} : v \in S}

Next ==
  \/ /\ \E k \in Keys, ok \in BOOLEAN : Get(k, ok)
     /\ UNCHANGED <<regVars, setting>>
  \/ /\ \E k \in Keys, m \in Motions, ok \in BOOLEAN : Set(k, m, ok)
     /\ UNCHANGED <<regVars, setting>>
  \/ /\ \E k \in Keys, ok \in BOOLEAN : Delete(k, ok)
     /\ UNCHANGED <<regVars, setting>>
  \/ /\ \E ok \in BOOLEAN : ClearCache(ok)
     /\ UNCHANGED <<regVars, setting>>
  \/ /\ \E p \in Providers, ok \in BOOLEAN : ClearProviderCache(p, ok)
     /\ UNCHANGED <<regVars, setting>>
  \/ /\ \E t \in Options(TTLs), s \in Options(Sizes) : UpdateConfig(t, s)
     /\ UNCHANGED <<regVars, setting>>
  \/ /\ CleanupExpired
     /\ UNCHANGED <<regVars, setting>>
  \/ /\ \E ok \in BOOLEAN : CompleteWrite(ok)
     /\ UNCHANGED <<regVars, setting>>
  \/ /\ Restart
     /\ UNCHANGED <<regVars, setting>>
  \/ /\ \E bad \in 0..Len(stored) : RestartCorrupt(bad)
     /\ UNCHANGED <<regVars, setting>>
  \/ /\ Tick
     /\ UNCHANGED <<regVars, setting>>

Spec == Init /\ [][Next]_vars

\* A cache constructed over empty storage and then used with its capacity
\* fixed: set, get, delete, clearCache and clearProviderCache only.
InitEmpty == Construct(<<>>) /\ RegistryStatic

NextFixed ==
  \/ /\ \E k \in Keys, ok \in BOOLEAN : Get(k, ok)
     /\ UNCHANGED <<regVars, setting>>
  \/ /\ \E k \in Keys, m \in Motions, ok \in BOOLEAN : Set(k, m, ok)
     /\ UNCHANGED <<regVars, setting>>
  \/ /\ \E k \in Keys, ok \in BOOLEAN : Delete(k, ok)
     /\ UNCHANGED <<regVars, setting>>
  \/ /\ \E ok \in BOOLEAN : ClearCache(ok)
     /\ UNCHANGED <<regVars, setting>>
  \/ /\ \E p \in Providers, ok \in BOOLEAN : ClearProviderCache(p, ok)
     /\ UNCHANGED <<regVars, setting>>
  \/ /\ Tick
     /\ UNCHANGED <<regVars, setting>>

SpecFromEmpty == InitEmpty /\ [][NextFixed]_vars

\* A has that takes an entry at its expiry time for expired.
HasLiveStrict(entry, t) == entry.expiresAt > t

\* `entry.expiresAt >= Date.now()` in has.
HasLive(entry, t) == entry.expiresAt >= t

\* has(key): `entry !== undefined && entry.expiresAt >= Date.now()`.
Has(k) ==
  /\ calls < MaxCalls
  /\ calls' = calls + 1
  /\ lastOp' = [NoCall EXCEPT
                  !.op = "has", !.key = k,
                  !.flag = MapHas(cache, k) /\ HasLive(MapGet(cache, k), now)]
  /\ UNCHANGED <<now, cache, hitCount, missCount, ttl, maxSize, stored,
                 pending, getCalls, inserted>>

\* getStats' providerBreakdown: for each provider some entry is filed
\* under, the number of entries filed under it.
ProviderBreakdown(c) ==
  [p \in {c[i][2].provider : i \in 1..Len(c)} |->
     Cardinality({i \in 1..Len(c) : c[i][2].provider = p})]

\* getStats(): what it returns of the size, the capacity, the counters and
\* the breakdown (oldestEntry, newestEntry and memoryUsage, read off the
\* entries' motions, are left out).
GetStats ==
  /\ calls < MaxCalls
  /\ calls' = calls + 1
  /\ lastOp' = [NoCall EXCEPT
                  !.op = "getStats",
                  !.result = {[size |-> Len(cache), maxSize |-> maxSize,
                               hitCount |-> hitCount,
                               missCount |-> missCount,
                               hitRate |-> GetHitRate(hitCount, missCount),
                               providerBreakdown |->
                                 ProviderBreakdown(cache)]}]
  /\ UNCHANGED <<now, cache, hitCount, missCount, ttl, maxSize, stored,
                 pending, getCalls, inserted>>

\* `key.substring(0, 50) + (key.length > 50 ? '...' : '')`: the text shown
\* is the first `shown` characters of the key, and an ellipsis or none.
DisplayKey(k) ==
  [of |-> k,
   shown |-> IF KeyLength(k) < 50 THEN KeyLength(k) ELSE 50,
   ellipsis |-> KeyLength(k) > 50]

\* exportCache's rows before the sort, in the order of the map.
ExportRows(c, t) ==
  [i \in 1..Len(c) |->
     [key |-> DisplayKey(c[i][1]),
      provider |-> c[i][2].provider,
      confidence |-> c[i][2].motion.confidence,
      age |-> t - c[i][2].motion.calculatedAt,
      expiresIn |-> c[i][2].expiresAt - t]]

\* A sort of the rows by age ascending: newest first.
SortRowsNewestFirst(rows) ==
  LET before(j, i) == \/ rows[j].age - rows[i].age < 0
                      \/ (rows[j].age - rows[i].age = 0 /\ j < i)
      rank(i) == Cardinality({j \in 1..Len(rows) : before(j, i)}) + 1
  IN  [r \in 1..Len(rows) |-> rows[CHOOSE i \in 1..Len(rows) : rank(i) = r]]

\* exportData.sort((a, b) => b.age - a.age): a comes first when that is
\* negative; the sort is stable.
SortRows(rows) ==
  LET before(j, i) == \/ rows[i].age - rows[j].age < 0
                      \/ (rows[i].age - rows[j].age = 0 /\ j < i)
      rank(i) == Cardinality({j \in 1..Len(rows) : before(j, i)}) + 1
  IN  [r \in 1..Len(rows) |-> rows[CHOOSE i \in 1..Len(rows) : rank(i) = r]]

\* exportCache(): the rows, sorted, are returned (in lastOp.result, as the
\* one element of a set).
ExportCache ==
  /\ calls < MaxCalls
  /\ calls' = calls + 1
  /\ lastOp' = [NoCall EXCEPT !.op = "exportCache",
                              !.result = {SortRows(ExportRows(cache, now))}]
  /\ UNCHANGED <<now, cache, hitCount, missCount, ttl, maxSize, stored,
                 pending, getCalls, inserted>>

\* The cache of a session that reads it: has, exportCache and getStats
\* next to get, set and the clock.
NextReads ==
  \/ /\ \E k \in Keys : Has(k)
     /\ UNCHANGED <<regVars, setting>>
  \/ /\ ExportCache
     /\ UNCHANGED <<regVars, setting>>
  \/ /\ GetStats
     /\ UNCHANGED <<regVars, setting>>
  \/ /\ \E k \in Keys, ok \in BOOLEAN : Get(k, ok)
     /\ UNCHANGED <<regVars, setting>>
  \/ /\ \E k \in Keys, m \in Motions, ok \in BOOLEAN : Set(k, m, ok)
     /\ UNCHANGED <<regVars, setting>>
  \/ /\ Tick
     /\ UNCHANGED <<regVars, setting>>

SpecReads == Init /\ [][NextReads]_vars

\* --------------------------- set calls that do not wait for one another

\* set is an async function: a call runs up to an await, and other calls
\* run before it resumes.  Its awaits are on evictOldEntries (which awaits
\* nothing itself, so the pass has run when set is suspended) and on
\* saveCache (which has taken the array of the map's values and called
\* globalState.update when set is suspended).

\* set from `const entry` to the await on saveCache, for caller c.
StoreEntry(c, k, m) ==
  LET c2 == MapSet(cache, k, MakeEntry(k, m, now, ttl))
  IN  /\ cache' = c2
      /\ setting' = [setting EXCEPT
                       ![c] = [pc |-> "saving", key |-> k, motion |-> m,
                               saved |-> MapValues(c2)]]

\* set(key, motion) is called: at capacity the eviction pass runs and the
\* call is suspended; otherwise the entry is stored and the save started.
SetBegin(c, k, m) ==
  /\ setting[c].pc = "idle"
  /\ \A d \in Callers : d < c => setting[d].pc # "idle"
  /\ calls < MaxCalls
  /\ calls' = calls + 1
  /\ UNCHANGED <<now, ttl, maxSize, hitCount, missCount, getCalls, stored,
                 pending>>
  /\ IF AtCapacity(Len(cache), maxSize)
       THEN LET ev == EvictOldEntries(cache)
            IN  /\ cache' = ev.cache
                /\ inserted' = Forget(inserted, SeqToSet(ev.keysToRemove))
                /\ setting' = [setting EXCEPT
                                 ![c] = [pc |-> "evicted", key |-> k,
                                         motion |-> m, saved |-> <<>>]]
                /\ lastOp' = [NoCall EXCEPT !.op = "setEvicted", !.key = k,
                                            !.evictRan = TRUE,
                                            !.evicted = ev.keysToRemove]
       ELSE /\ StoreEntry(c, k, m)
            /\ inserted' = Forget(inserted, {k})
                             \cup {[key |-> k, motion |-> m, at |-> now,
                                    ttl |-> ttl]}
            /\ lastOp' = [NoCall EXCEPT !.op = "setStored", !.key = k,
                                        !.save = "started"]

\* A set suspended after its eviction pass resumes: the entry is stored
\* and the save started.
SetResume(c) ==
  /\ setting[c].pc = "evicted"
  /\ StoreEntry(c, setting[c].key, setting[c].motion)
  /\ inserted' = Forget(inserted, {setting[c].key})
                   \cup {[key |-> setting[c].key,
                          motion |-> setting[c].motion, at |-> now,
                          ttl |-> ttl]}
  /\ lastOp' = [NoCall EXCEPT !.op = "setStored", !.key = setting[c].key,
                              !.save = "started"]
  /\ UNCHANGED <<now, ttl, maxSize, hitCount, missCount, getCalls, stored,
                 pending, calls>>

\* The globalState.update of a set's saveCache settles (ok: it resolves),
\* and the set returns.
SetSaved(c, ok) ==
  /\ setting[c].pc = "saving"
  /\ stored' = IF ok THEN setting[c].saved ELSE stored
  /\ setting' = [setting EXCEPT ![c] = IdleSet]
  /\ lastOp' = [NoCall EXCEPT !.op = "setDone", !.key = setting[c].key,
                              !.save = IF ok THEN "ok" ELSE "failed",
                              !.logged = ~ok]
  /\ UNCHANGED <<now, cache, hitCount, missCount, ttl, maxSize, pending,
                 getCalls, inserted, calls>>

\* dispose() of the cache: saveCache is called and not awaited.  One such
\* write is in flight at a time.
DisposeCache ==
  /\ calls < MaxCalls
  /\ calls' = calls + 1
  /\ pending = <<>>
  /\ pending' = Append(pending, MapValues(cache))
  /\ lastOp' = [NoCall EXCEPT !.op = "dispose", !.save = "started"]
  /\ UNCHANGED <<now, cache, hitCount, missCount, ttl, maxSize, stored,
                 getCalls, inserted>>

\* No set call is between its start and its return.
NoSetInFlight == \A c \in Callers : setting[c].pc = "idle"

\* Keys the overlapping callers use: two that persisted arrays do not hold.
FreshKeys == {"k9", "k0"}

\* A cache within its capacity, of the larger size.
InitSets ==
  /\ Init
  /\ maxSize = MaxMaxSize
  /\ Len(cache) <= maxSize

\* The cache with set calls started without awaiting one another, next to
\* the cleanup timer, dispose and the clock; every write to storage
\* resolves, in the order the writes happen to complete.
NextSets ==
  \/ /\ \E c \in Callers, k \in FreshKeys, m \in Motions :
           SetBegin(c, k, m)
     /\ UNCHANGED regVars
  \/ /\ \E c \in Callers : SetResume(c)
     /\ UNCHANGED regVars
  \/ /\ \E c \in Callers : SetSaved(c, TRUE)
     /\ UNCHANGED regVars
  \/ /\ CleanupExpired
     /\ UNCHANGED <<regVars, setting>>
  \/ /\ DisposeCache
     /\ UNCHANGED <<regVars, setting>>
  \/ /\ CompleteWrite(TRUE)
     /\ UNCHANGED <<regVars, setting>>
  \/ /\ Tick
     /\ UNCHANGED <<regVars, setting>>

SpecSets == InitSets /\ [][NextSets]_vars

\* The cache with each set awaited before the next one starts, next to the
\* cleanup timer and dispose, whose saves are not awaited: a save of theirs
\* and the save of a set are in flight together and settle in either order.
NextWrites ==
  \/ /\ NoSetInFlight
     /\ \E c \in Callers, k \in FreshKeys, m \in Motions :
           SetBegin(c, k, m)
     /\ UNCHANGED regVars
  \/ /\ \E c \in Callers : SetResume(c)
     /\ UNCHANGED regVars
  \/ /\ \E c \in Callers : SetSaved(c, TRUE)
     /\ UNCHANGED regVars
  \/ /\ CleanupExpired
     /\ UNCHANGED <<regVars, setting>>
  \/ /\ DisposeCache
     /\ UNCHANGED <<regVars, setting>>
  \/ /\ CompleteWrite(TRUE)
     /\ UNCHANGED <<regVars, setting>>
  \/ /\ Tick
     /\ UNCHANGED <<regVars, setting>>

SpecWrites == InitSets /\ [][NextWrites]_vars

\* ------------------------------------------------- the provider registry

\* createProvider is an async function: it runs up to an await, and other
\* calls run before it resumes.  Its awaits are on testConnection of the
\* existing instance, on initialize and on testConnection of the new
\* instance; each action below is one stretch between awaits.

\* createProvider returns instance id.
Return(call, id) ==
  [call EXCEPT !.pc = "done", !.returned = id]

\* createProvider throws err.
Throw(call, err) ==
  [call EXCEPT !.pc = "done", !.error = err]

Did(call, evs) == [call EXCEPT !.events = @ \o evs]

\* The calls cr without the records of those that have returned: a
\* returned call's record is kept until the next call is made.
Forgotten(cr) ==
  [c \in DOMAIN cr |-> IF cr[c].pc = "done" THEN IdleCreate ELSE cr[c]]

\* The tests on a testConnection result r ("true", "false", "throws"):
\* a reuse that trusts the existing instance whatever it answers,
ReusableAlways(r) == TRUE
\* `if (isWorking)` for the existing instance,
Reusable(r) == r = "true"
\* a construction that records the instance unless the test throws,
NewIsWorkingUnlessThrown(r) == r # "throws"
\* `if (!isWorking)`, negated, for the new instance.
NewIsWorking(r) == r = "true"

\* createProvider from the lookup of the provider class on, up to the await
\* on initialize, with the calls, the instance map and the objects as the
\* first part of the call left them.
BeginConstruction(c, call, cr, insts, os) ==
  /\ instances' = insts
  /\ UNCHANGED providers
  /\ IF call.type \notin providers
       THEN /\ objs' = os
            /\ creating' = [cr EXCEPT
                  ![c] = Throw(call, ProviderError(call.type, "unknown"))]
       ELSE LET id == Len(os) + 1
            IN  /\ objs' = Append(os, NewProvider(call.type))
                /\ creating' = [cr EXCEPT
                      ![c] = Did([call EXCEPT !.pc = "initializing",
                                              !.provider = id],
                                 <<Event("construct", id),
                                   Event("initialize", id)>>)]

\* createProvider(type, config) is called: the instance key is computed
\* and looked up; an existing instance is asked for testConnection,
\* otherwise construction begins.
CreateProvider(c, type, config) ==
  /\ creating[c].pc \in {"idle", "done"}
  /\ \A d \in Callers : d < c => creating[d].pc \notin {"idle", "done"}
  /\ <<type, config>> \in CreateInputs
  /\ creates < MaxCreates
  /\ creates' = creates + 1
  /\ LET instanceKey == InstanceKey(type, config, now)
         call == [IdleCreate EXCEPT !.type = type, !.config = config,
                                    !.key = instanceKey]
     IN  IF MapHas(instances, instanceKey)
           THEN LET existingInstance == MapGet(instances, instanceKey)
                IN  /\ creating' = [Forgotten(creating) EXCEPT
                          ![c] = Did([call EXCEPT
                                        !.pc = "testExisting",
                                        !.existing = existingInstance],
                                     <<Event("test", existingInstance)>>)]
                    /\ UNCHANGED <<providers, instances, objs>>
           ELSE BeginConstruction(c, call, Forgotten(creating), instances,
                                  objs)

\* The existing instance's testConnection settles with r.  A working
\* instance is returned.  Otherwise it is disposed and its key deleted, and
\* construction begins; when its dispose() throws (disposeThrows), the
\* catch block calls it again and that error leaves createProvider, the
\* key still in the map.
ExistingTested(c, r, disposeThrows) ==
  /\ creating[c].pc = "testExisting"
  /\ UNCHANGED creates
  /\ LET call == [creating[c] EXCEPT !.isWorking = r]
         stale == call.existing
         tested == Tested(objs, stale, r)
     IN  IF Reusable(r)
           THEN /\ objs' = tested
                /\ creating' = [creating EXCEPT ![c] = Return(call, stale)]
                /\ UNCHANGED <<providers, instances>>
           ELSE LET os == [tested EXCEPT ![stale] = DisposeObj(@)]
                IN  IF disposeThrows
                      THEN /\ objs' = os
                           /\ creating' = [creating EXCEPT
                                 ![c] = Throw(Did(call,
                                                  <<Event("dispose", stale)>>),
                                              RawError)]
                           /\ UNCHANGED <<providers, instances>>
                      ELSE BeginConstruction(
                             c,
                             Did(call, <<Event("dispose", stale),
                                         Event("delete", stale)>>),
                             creating, MapDelete(instances, call.key), os)

\* initialize settles: "ok"; "ProviderError", thrown by the provider's own
\* validation with the provider's name and rethrown as it is; or "Error",
\* any other error, wrapped into a ProviderError of the type.  On success
\* testConnection of the new instance is called.
Initialized(c, outcome) ==
  /\ creating[c].pc = "initializing"
  /\ UNCHANGED <<providers, instances, creates>>
  /\ LET call == [creating[c] EXCEPT !.init = outcome]
         id == call.provider
     IN  /\ objs' = [objs EXCEPT
                       ![id] = InitializeObj(@, call.config, outcome = "ok")]
         /\ creating' = [creating EXCEPT ![c] =
               CASE outcome = "ok" ->
                      Did([call EXCEPT !.pc = "testing"],
                          <<Event("test", id)>>)
                 [] outcome = "ProviderError" ->
                      Throw(call, ProviderError(objs[id].type, "provider"))
                 [] outcome = "Error" ->
                      Throw(call, ProviderError(call.type, "wrapped"))]

\* The new instance's testConnection settles with r.  A working instance is
\* recorded under the key and returned; one that answers false is disposed
\* (an error of its dispose() is wrapped) and the call fails; a test that
\* throws is wrapped.
ConnectionTested(c, r, disposeThrows) ==
  /\ creating[c].pc = "testing"
  /\ UNCHANGED <<providers, creates>>
  /\ LET call == [creating[c] EXCEPT !.isWorking = r]
         id == call.provider
         tested == Tested(objs, id, r)
     IN  CASE NewIsWorking(r) ->
                /\ objs' = tested
                /\ instances' = MapSet(instances, call.key, id)
                /\ creating' = [creating EXCEPT
                      ![c] = Return(Did(call, <<Event("set", id)>>), id)]
           [] ~NewIsWorking(r) /\ r = "throws" ->
                /\ creating' = [creating EXCEPT
                      ![c] = Throw(call, ProviderError(call.type, "wrapped"))]
                /\ UNCHANGED <<instances, objs>>
           [] ~NewIsWorking(r) /\ r # "throws" ->
                /\ objs' = [tested EXCEPT ![id] = DisposeObj(@)]
                /\ creating' = [creating EXCEPT
                      ![c] = Throw(Did(call, <<Event("dispose", id)>>),
                                   IF disposeThrows
                                     THEN ProviderError(call.type, "wrapped")
                                     ELSE ProviderError(call.type, "test"))]
                /\ UNCHANGED instances

\* registerProvider(type, providerClass); ClaudeProvider, the one provider
\* class there is, is registered as "claude".
RegisterProvider(type) ==
  /\ providers' = providers \cup {type}
  /\ UNCHANGED <<instances, objs, creating, creates>>

\* key.startsWith(`${type}_`), for types none of which has a "_".
KeyOfType(key, type) == key.type = type

\* The loop of unregisterProvider from entry i of the map as it was when
\* the loop began: each instance of the type is disposed and its key
\* deleted; a dispose() that throws (that of entry bad, if any) ends the
\* loop, its key still there.
RECURSIVE UnregisterFrom(_, _, _, _, _, _)
UnregisterFrom(entries, i, type, bad, insts, os) ==
  IF i > Len(entries) THEN [instances |-> insts, objs |-> os, threw |-> FALSE]
  ELSE LET key == entries[i][1]
           id == entries[i][2]
       IN  IF ~KeyOfType(key, type)
             THEN UnregisterFrom(entries, i + 1, type, bad, insts, os)
           ELSE IF i = bad
             THEN [instances |-> insts,
                   objs |-> [os EXCEPT ![id] = DisposeObj(@)],
                   threw |-> TRUE]
           ELSE UnregisterFrom(entries, i + 1, type, bad,
                               MapDelete(insts, key),
                               [os EXCEPT ![id] = DisposeObj(@)])

\* Which dispose() of an unregisterProvider(type) can be the first to
\* throw: none (0), or that of an entry of the type.
Brittle(insts, type) ==
  {0} \cup {i \in 1..Len(insts) : KeyOfType(insts[i][1], type)}

\* unregisterProvider(type); the type is deleted after the loop, so not
\* when the loop threw.
UnregisterProvider(type, bad) ==
  LET pass == UnregisterFrom(instances, 1, type, bad, instances, objs)
  IN  /\ instances' = pass.instances
      /\ objs' = pass.objs
      /\ providers' = IF pass.threw THEN providers ELSE providers \ {type}
      /\ UNCHANGED <<creating, creates>>

TestResults == {"true", "false", "throws"}
InitializeOutcomes == {"ok", "ProviderError", "Error"}

\* The registry in a process whose cache, constructed over empty storage,
\* is not used.  Date.now() is positive: the clock starts at 1.
InitRegistry ==
  /\ now = 1
  /\ stored = <<>>
  /\ cache = <<>>
  /\ hitCount = 0
  /\ missCount = 0
  /\ ttl = 1
  /\ maxSize = 1
  /\ pending = <<>>
  /\ lastOp = NoCall
  /\ getCalls = 0
  /\ inserted = {}
  /\ calls = 0
  /\ setting = [c \in Callers |-> IdleSet]
  /\ RegistryStatic

\* The clock advances, MaxClock times at most.
ClockTick ==
  /\ now <= MaxClock
  /\ Tick
  /\ UNCHANGED <<providers, instances, objs, creating, creates, setting>>

\* No createProvider call is between its start and its return.
NoneInFlight == \A c \in Callers : creating[c].pc \in {"idle", "done"}

\* The registry with each createProvider awaited before the next is
\* called; registerProvider, unregisterProvider and the clock do not wait
\* for a call in flight.
NextRegistry ==
  \/ /\ NoneInFlight
     /\ \E c \in Callers, type \in ProviderTypes, config \in Configs :
           CreateProvider(c, type, config)
     /\ UNCHANGED <<now, cacheVars, regOp>>
  \/ /\ \E c \in Callers, r \in TestResults, disposeThrows \in BOOLEAN :
           ExistingTested(c, r, disposeThrows)
     /\ UNCHANGED <<now, cacheVars, regOp>>
  \/ /\ \E c \in Callers, outcome \in InitializeOutcomes :
           Initialized(c, outcome)
     /\ UNCHANGED <<now, cacheVars, regOp>>
  \/ /\ \E c \in Callers, r \in TestResults, disposeThrows \in BOOLEAN :
           ConnectionTested(c, r, disposeThrows)
     /\ UNCHANGED <<now, cacheVars, regOp>>
  \/ /\ RegisterProvider("claude")
     /\ UNCHANGED <<now, cacheVars, regOp>>
  \/ /\ \E type \in ProviderTypes :
           \E bad \in Brittle(instances, type) : UnregisterProvider(type, bad)
     /\ UNCHANGED <<now, cacheVars, regOp>>
  \/ /\ ClockTick
     /\ UNCHANGED regOp

SpecRegistry == InitRegistry /\ [][NextRegistry]_vars

\* The registry with createProvider calls started without awaiting one
\* another.
NextOverlap ==
  \/ /\ \E c \in Callers, type \in ProviderTypes, config \in Configs :
           CreateProvider(c, type, config)
     /\ UNCHANGED <<now, cacheVars, regOp>>
  \/ /\ \E c \in Callers, r \in TestResults, disposeThrows \in BOOLEAN :
           ExistingTested(c, r, disposeThrows)
     /\ UNCHANGED <<now, cacheVars, regOp>>
  \/ /\ \E c \in Callers, outcome \in InitializeOutcomes :
           Initialized(c, outcome)
     /\ UNCHANGED <<now, cacheVars, regOp>>
  \/ /\ \E c \in Callers, r \in TestResults, disposeThrows \in BOOLEAN :
           ConnectionTested(c, r, disposeThrows)
     /\ UNCHANGED <<now, cacheVars, regOp>>
  \/ /\ RegisterProvider("claude")
     /\ UNCHANGED <<now, cacheVars, regOp>>
  \/ /\ \E type \in ProviderTypes :
           \E bad \in Brittle(instances, type) : UnregisterProvider(type, bad)
     /\ UNCHANGED <<now, cacheVars, regOp>>
  \/ /\ ClockTick
     /\ UNCHANGED regOp

SpecOverlap == InitRegistry /\ [][NextOverlap]_vars

\* ------------------------------------------------- managing the registry

\* The record of a registry call of handler op that threw or returned.
RegCall(op, type, threw) ==
  [NoRegOp EXCEPT !.op = op, !.type = type,
                  !.error = IF threw THEN RawError ELSE NoError]

\* A temporary provider that is constructed and left as it is.
TempProviderKept(type) == NewProvider(type)

\* getProviderInfo's tempProvider as the call leaves it: constructed, read
\* (name, version, capabilities, configuration schema) and disposed.
TempProvider(type) == DisposeObj(NewProvider(type))

\* getProviderInfo(type): an unknown type is a ProviderError; otherwise a
\* temporary provider is constructed, read and disposed (disposeThrows: its
\* dispose() throws, and the error leaves getProviderInfo).
GetProviderInfo(type, disposeThrows) ==
  /\ regOp' = IF type \notin providers
                THEN [NoRegOp EXCEPT !.op = "info", !.type = type,
                                     !.error = ProviderError(type, "unknown")]
                ELSE [RegCall("info", type, disposeThrows) EXCEPT
                        !.made = <<TempProvider(type)>>]
  /\ UNCHANGED <<providers, instances, objs, creating, creates>>

\* A loop over the instances from entry i on that disposes each and lets
\* the first error of a dispose() (those of the entries in bad throw) out.
RECURSIVE DisposeFromUncaught(_, _, _, _)
DisposeFromUncaught(insts, i, bad, os) ==
  IF i > Len(insts) THEN [objs |-> os, logged |-> 0, threw |-> FALSE]
  ELSE LET id == insts[i][2]
           disposed == [os EXCEPT ![id] = DisposeObj(@)]
       IN  IF i \in bad
             THEN [objs |-> disposed, logged |-> 0, threw |-> TRUE]
             ELSE DisposeFromUncaught(insts, i + 1, bad, disposed)

\* The loop of dispose(): each instance is disposed inside a try block
\* whose catch logs the error and goes on.
RECURSIVE DisposeFrom(_, _, _, _)
DisposeFrom(insts, i, bad, os) ==
  IF i > Len(insts) THEN [objs |-> os, logged |-> 0, threw |-> FALSE]
  ELSE LET id == insts[i][2]
           disposed == [os EXCEPT ![id] = DisposeObj(@)]
           rest == DisposeFrom(insts, i + 1, bad, disposed)
       IN  IF i \in bad THEN [rest EXCEPT !.logged = @ + 1] ELSE rest

\* ProviderFactory.dispose(): the loop, then instances.clear().
DisposeAll(bad) ==
  LET pass == DisposeFrom(instances, 1, bad, objs)
  IN  /\ objs' = pass.objs
      /\ instances' = IF pass.threw THEN instances ELSE <<>>
      /\ regOp' = [RegCall("dispose", "", pass.threw) EXCEPT
                     !.logged = pass.logged]
      /\ UNCHANGED <<providers, creating, creates>>

\* A staleness test that takes an instance of age maxAge too.
StaleAtMaxAge(key, t, maxAge) == key.stamp > 0 /\ t - key.stamp >= maxAge

\* `timestamp > 0 && now - timestamp > maxAge`, the timestamp being the
\* last "_" part of the key.
Stale(key, t, maxAge) == key.stamp > 0 /\ t - key.stamp > maxAge

\* The first loop of cleanupInstances from entry i on: the key of each
\* stale instance is pushed to instancesToRemove and the instance disposed;
\* a dispose() that throws (that of entry bad, if any) ends the function.
RECURSIVE CleanupFrom(_, _, _, _, _, _, _)
CleanupFrom(insts, i, t, maxAge, bad, os, instancesToRemove) ==
  IF i > Len(insts)
    THEN [objs |-> os, remove |-> instancesToRemove, threw |-> FALSE]
  ELSE LET key == insts[i][1]
           id == insts[i][2]
           disposed == [os EXCEPT ![id] = DisposeObj(@)]
       IN  IF ~Stale(key, t, maxAge)
             THEN CleanupFrom(insts, i + 1, t, maxAge, bad, os,
                              instancesToRemove)
           ELSE IF i = bad
             THEN [objs |-> disposed,
                   remove |-> Append(instancesToRemove, key),
                   threw |-> TRUE]
           ELSE CleanupFrom(insts, i + 1, t, maxAge, bad, disposed,
                            Append(instancesToRemove, key))

\* Which dispose() of a cleanupInstances(maxAge) can be the first to throw:
\* none (0), or that of a stale entry.
BrittleStale(insts, t, maxAge) ==
  {0} \cup {i \in 1..Len(insts) : Stale(insts[i][1], t, maxAge)}

\* cleanupInstances(maxAge): the first loop, then the loop that deletes the
\* keys pushed.
CleanupInstances(maxAge, bad) ==
  LET pass == CleanupFrom(instances, 1, now, maxAge, bad, objs, <<>>)
  IN  /\ objs' = pass.objs
      /\ instances' = IF pass.threw THEN instances
                      ELSE DeleteAll(instances, pass.remove)
      /\ regOp' = [RegCall("cleanup", "", pass.threw) EXCEPT
                     !.maxAge = maxAge]
      /\ UNCHANGED <<providers, creating, creates>>

\* An oldest instance that is the one created last.
OldestTimestampLatest(insts) ==
  LET stamps == {insts[i][1].stamp : i \in 1..Len(insts)} \cap (Nat \ {0})
  IN  IF stamps = {} THEN {}
      ELSE {CHOOSE m \in stamps : \A n \in stamps : m >= n}

\* getInstanceStats' oldestTimestamp, {} when it is left at Infinity: the
\* least of the timestamps (the last "_" part of each key) that are > 0.
OldestTimestamp(insts) ==
  LET stamps == {insts[i][1].stamp : i \in 1..Len(insts)} \cap (Nat \ {0})
  IN  IF stamps = {} THEN {}
      ELSE {CHOOSE m \in stamps : \A n \in stamps : m <= n}

\* getInstanceStats' providerCounts: for each first "_" part of a key, the
\* number of keys that begin with it.
ProviderCounts(insts) ==
  [type \in {insts[i][1].type : i \in 1..Len(insts)} |->
     Cardinality({i \in 1..Len(insts) : insts[i][1].type = type})]

\* getInstanceStats().
GetInstanceStats ==
  /\ regOp' = [NoRegOp EXCEPT
                 !.op = "stats",
                 !.result = {[totalInstances |-> Len(instances),
                              providerCounts |-> ProviderCounts(instances),
                              oldestInstance |->
                                OldestTimestamp(instances)]}]
  /\ UNCHANGED <<providers, instances, objs, creating, creates>>

\* The ages cleanupInstances is called with.
MaxAges == {0, 1}

\* The registry while provider types come and go: providers are created
\* one at a time, types are registered and unregistered and provider
\* information is read.
NextTypes ==
  \/ /\ NoneInFlight
     /\ \E c \in Callers, type \in ProviderTypes, config \in Configs :
           CreateProvider(c, type, config)
     /\ regOp' = NoRegOp
     /\ UNCHANGED <<now, cacheVars>>
  \/ /\ \E c \in Callers, r \in TestResults, disposeThrows \in BOOLEAN :
           ExistingTested(c, r, disposeThrows)
     /\ regOp' = NoRegOp
     /\ UNCHANGED <<now, cacheVars>>
  \/ /\ \E c \in Callers, outcome \in InitializeOutcomes :
           Initialized(c, outcome)
     /\ regOp' = NoRegOp
     /\ UNCHANGED <<now, cacheVars>>
  \/ /\ \E c \in Callers, r \in TestResults, disposeThrows \in BOOLEAN :
           ConnectionTested(c, r, disposeThrows)
     /\ regOp' = NoRegOp
     /\ UNCHANGED <<now, cacheVars>>
  \/ /\ \E type \in ProviderTypes : RegisterProvider(type)
     /\ regOp' = NoRegOp
     /\ UNCHANGED <<now, cacheVars>>
  \/ /\ \E type \in ProviderTypes :
           \E bad \in Brittle(instances, type) :
              /\ UnregisterProvider(type, bad)
              /\ regOp' = RegCall("unregister", type, bad # 0)
     /\ UNCHANGED <<now, cacheVars>>
  \/ /\ \E type \in ProviderTypes, disposeThrows \in BOOLEAN :
           GetProviderInfo(type, disposeThrows)
     /\ UNCHANGED <<now, cacheVars>>

SpecTypes == InitRegistry /\ [][NextTypes]_vars

\* The registry while it is kept tidy: providers are created one at a
\* time, a type is registered, the clock advances, statistics are read,
\* stale instances are cleaned up and the registry is disposed.
NextTidy ==
  \/ /\ NoneInFlight
     /\ \E c \in Callers, type \in ProviderTypes, config \in Configs :
           CreateProvider(c, type, config)
     /\ regOp' = NoRegOp
     /\ UNCHANGED <<now, cacheVars>>
  \/ /\ \E c \in Callers, r \in TestResults, disposeThrows \in BOOLEAN :
           ExistingTested(c, r, disposeThrows)
     /\ regOp' = NoRegOp
     /\ UNCHANGED <<now, cacheVars>>
  \/ /\ \E c \in Callers, outcome \in InitializeOutcomes :
           Initialized(c, outcome)
     /\ regOp' = NoRegOp
     /\ UNCHANGED <<now, cacheVars>>
  \/ /\ \E c \in Callers, r \in TestResults, disposeThrows \in BOOLEAN :
           ConnectionTested(c, r, disposeThrows)
     /\ regOp' = NoRegOp
     /\ UNCHANGED <<now, cacheVars>>
  \/ /\ \E type \in ProviderTypes : RegisterProvider(type)
     /\ regOp' = NoRegOp
     /\ UNCHANGED <<now, cacheVars>>
  \/ /\ GetInstanceStats
     /\ UNCHANGED <<now, cacheVars>>
  \/ /\ \E maxAge \in MaxAges :
           \E bad \in BrittleStale(instances, now, maxAge) :
              CleanupInstances(maxAge, bad)
     /\ UNCHANGED <<now, cacheVars>>
  \/ /\ \E bad \in SUBSET (1..Len(instances)) : DisposeAll(bad)
     /\ UNCHANGED <<now, cacheVars>>
  \/ /\ ClockTick
     /\ regOp' = NoRegOp

SpecTidy == InitRegistry /\ [][NextTidy]_vars

\* -------------------------------------------- the life cycle of a provider

\* Configurations a ClaudeProvider is initialized with: the ones
\* createProvider is called with, one with no API key, one whose key is too
\* short and one that names a model there is not.
ProviderConfigs ==
  Configs \cup {<<<<"model", "haiku">>>>,
                <<<<"apiKey", "sk">>>>,
                <<<<"apiKey", "sk-1">>, <<"model", "gpt">>>>}

\* this.config[name]: the value of the property, "" when there is none
\* (undefined, which the tests below take for false as they do "").
ConfigField(config, name) ==
  IF \E i \in 1..Len(config) : config[i][1] = name
    THEN ConfigValue(config, name)
    ELSE ""

\* apiKey.length, for the keys used: "sk-1" and "sk-2" stand for keys of
\* 20 characters or more, "sk" for a shorter one.
ApiKeyLength(apiKey) == IF apiKey \in {"sk-1", "sk-2"} THEN 20 ELSE 2

\* validModels, "haiku" standing for one of its members.
ValidModels == {"sonnet", "haiku", "opus"}

\* validateConfig(): TRUE when it returns, FALSE when it throws its
\* ProviderError.  No configuration used has a maxTokens property, so the
\* last test is passed over.
ValidateConfig(config) ==
  /\ ConfigField(config, "apiKey") # ""
  /\ ApiKeyLength(ConfigField(config, "apiKey")) >= 20
  /\ ConfigField(config, "model") # ""
       => ConfigField(config, "model") \in ValidModels

\* A call on provider object id, as regOp records it: the object as it was
\* when the call was made, the error thrown and the value returned.
ProviderCall(op, id, error, result) ==
  [NoRegOp EXCEPT !.op = op, !.type = objs[id].type, !.made = <<objs[id]>>,
                  !.error = error, !.result = result]

\* new ClaudeProvider().
ConstructClaude ==
  /\ Len(objs) < MaxProviders
  /\ objs' = Append(objs, NewProvider("claude"))
  /\ regOp' = [NoRegOp EXCEPT !.op = "construct", !.type = "claude"]
  /\ UNCHANGED <<providers, instances, creating, creates>>

\* initialize(config) of ClaudeProvider: BaseLLMProvider.initialize, which
\* validates, then the client is made.
InitializeClaude(id, config) ==
  LET ok == ValidateConfig(config)
  IN  /\ objs' = [objs EXCEPT ![id] = InitializeObj(@, config, ok)]
      /\ regOp' = ProviderCall("initialize", id,
                               IF ok THEN NoError
                                     ELSE ProviderError(objs[id].type,
                                                        "provider"),
                               {})
      /\ UNCHANGED <<providers, instances, creating, creates>>

\* dispose() of the provider.
DisposeClaude(id) ==
  /\ objs' = [objs EXCEPT ![id] = DisposeObj(@)]
  /\ regOp' = ProviderCall("dispose", id, NoError, {})
  /\ UNCHANGED <<providers, instances, creating, creates>>

\* calculateMotion(request): ensureInitialized, then the test of the
\* client, then the client's sendMessage, which settles with sent: "ok", a
\* motion parsed from the answer; "ProviderError", rethrown; "Error", the
\* basic motion returned instead.
CalculateMotion(id, sent) ==
  /\ regOp' =
       IF ~objs[id].isInitialized \/ ~objs[id].client
         THEN ProviderCall("calculateMotion", id,
                           ProviderError(objs[id].type, "provider"), {})
       ELSE IF sent = "ProviderError"
         THEN ProviderCall("calculateMotion", id,
                           ProviderError(objs[id].type, "provider"), {})
       ELSE ProviderCall("calculateMotion", id, NoError,
                         {IF sent = "ok" THEN "parsed" ELSE "basic"})
  /\ UNCHANGED <<providers, instances, objs, creating, creates>>

\* testConnection(): false without a client; otherwise the client's
\* answer, true when its test message was answered (reached) and false
\* when sending it failed.
TestConnection(id, reached) ==
  LET answer == objs[id].client /\ reached
  IN  /\ objs' = Tested(objs, id, IF answer THEN "true" ELSE "false")
      /\ regOp' = ProviderCall("testConnection", id, NoError, {answer})
      /\ UNCHANGED <<providers, instances, creating, creates>>

\* One provider used directly: constructed, initialized, used and disposed
\* in any order.
NextProvider ==
  \/ /\ ConstructClaude
     /\ UNCHANGED <<now, cacheVars>>
  \/ /\ \E id \in 1..Len(objs), config \in ProviderConfigs :
           InitializeClaude(id, config)
     /\ UNCHANGED <<now, cacheVars>>
  \/ /\ \E id \in 1..Len(objs) : DisposeClaude(id)
     /\ UNCHANGED <<now, cacheVars>>
  \/ /\ \E id \in 1..Len(objs), sent \in InitializeOutcomes :
           CalculateMotion(id, sent)
     /\ UNCHANGED <<now, cacheVars>>
  \/ /\ \E id \in 1..Len(objs), reached \in BOOLEAN :
           TestConnection(id, reached)
     /\ UNCHANGED <<now, cacheVars>>

SpecProvider == InitRegistry /\ [][NextProvider]_vars

\* ----------------------------------------------------------------- claims

\* The step is a call of handler op (every call sets lastOp to its record
\* and counts itself).
IsCall(op) == lastOp'.op = op /\ calls' = calls + 1

\* C1: a key that set stored at time `at` with time-to-live `ttl`, and that
\* no delete, clear, provider clear, eviction or overwrite has taken out,
\* is answered by get with the stored motion up to and including at + ttl,
\* and with null strictly after.
C1_GetUntilExpiry ==
  [][\A r \in inserted :
       (IsCall("get") /\ lastOp'.key = r.key)
         => lastOp'.result = IF now <= r.at + r.ttl THEN {r.motion} ELSE {}
    ]_vars

\* C1 witness: get answered null for a key set stored, after its deadline.
C1_Witness ==
  /\ lastOp.op = "get"
  /\ lastOp.result = {}
  /\ \E r \in inserted : r.key = lastOp.key /\ now > r.at + r.ttl

\* C2 (as claimed): an eviction pass that set runs on a cache at capacity
\* removes at least one entry.
C2_EvictionFreesSpace ==
  (lastOp.op = "set" /\ lastOp.evictRan) => Len(lastOp.evicted) >= 1

\* C3: after an eviction pass no entry that stays expires strictly earlier
\* than an entry the pass removed, and the pass removes what it lists.
C3_SoonestExpiringFirst ==
  [][lastOp'.evictRan /\ calls' = calls + 1 =>
       LET gone == SeqToSet(lastOp'.evicted)
       IN  /\ \A i, j \in 1..Len(cache) :
                (cache[i][1] \in gone /\ cache[j][1] \notin gone)
                  => cache[j][2].expiresAt >= cache[i][2].expiresAt
           /\ gone \subseteq MapKeys(cache)
           /\ MapKeys(cache') \ {lastOp'.key} =
                (MapKeys(cache) \ gone) \ {lastOp'.key}
    ]_vars

\* C3 witness: a pass removed two entries and left others.
C3_Witness ==
  /\ lastOp.evictRan
  /\ Len(lastOp.evicted) = 2
  /\ Len(cache) >= 6

\* C4 (as claimed): from an empty cache with maxSize fixed, the map never
\* holds more than maxSize entries once a call has returned.
C4_CapacityBounded == Len(cache) <= maxSize

\* C5 (as claimed): when updateConfig evicts because the new maxSize is
\* below the size, the size is within the new maxSize on return.
C5_ShrinkWithinBound ==
  (lastOp.op = "updateConfig" /\ lastOp.evictRan) => Len(cache) <= maxSize

\* C6: hitCount + missCount is the number of get calls since the last clear
\* (or construction), a get adds one to exactly one of the two, and the hit
\* rate is hits / (hits + misses) * 100, 0 when there was no get.
C6_CountersMatchGets ==
  /\ [](/\ hitCount + missCount = getCalls
        /\ LET rate == GetHitRate(hitCount, missCount)
           IN  IF getCalls = 0 THEN rate[1] = 0
               ELSE rate[1] * getCalls = 100 * hitCount * rate[2])
  /\ [][IsCall("get") =>
          \/ hitCount' = hitCount + 1 /\ missCount' = missCount
          \/ hitCount' = hitCount /\ missCount' = missCount + 1
       ]_vars

\* C6 witness: gets of both kinds have been counted.
C6_Witness == hitCount >= 1 /\ missCount >= 1 /\ lastOp.op = "get"

\* C7: clearProviderCache(p) removes exactly the entries whose provider is
\* p and leaves every other entry as it was.
C7_ClearProviderExact ==
  [][IsCall("clearProviderCache") =>
       /\ MapKeys(cache') =
            {k \in MapKeys(cache) : MapGet(cache, k).provider # lastOp'.provider}
       /\ \A k \in MapKeys(cache') : MapGet(cache', k) = MapGet(cache, k)
    ]_vars

\* C7 witness: a provider clear removed entries and left others.
C7_Witness ==
  /\ lastOp.op = "clearProviderCache"
  /\ Len(lastOp.removed) >= 1
  /\ Len(cache) >= 1

\* C8 (as claimed): a cache constructed from the persisted array holds
\* exactly the persisted entries that are not expired at load time, where
\* expired is what get calls expired.
C8_ReloadKeepsLive ==
  lastOp.op = "construct" =>
    MapValues(cache) = SelectSeq(stored, LAMBDA e : ~IsExpired(e, now))

\* C9 (as claimed): once a mutating call has returned and no save of it
\* failed, the persisted array is the in-memory map; this names the calls
\* whose save was awaited and the updateConfig that evicted.
C9_DurableAfterMutation ==
  (\/ lastOp.save = "ok" /\ lastOp.op # "writeDone"
   \/ lastOp.op = "updateConfig" /\ Len(lastOp.evicted) > 0)
    => stored = MapValues(cache)

\* C10: when the save of a set, delete, clearCache, clearProviderCache or
\* expiring get fails, no error reaches the caller, the failure is logged,
\* the map and the counters hold the mutation, and the persisted array is
\* what it was.
C10_SaveFailureKeepsMutation ==
  [][(lastOp'.save = "failed" /\ calls' = calls + 1) =>
       /\ ~lastOp'.threw
       /\ lastOp'.logged
       /\ stored' = stored
       /\ CASE lastOp'.op = "set" ->
                 /\ MapHas(cache', lastOp'.key)
                 /\ MapGet(cache', lastOp'.key).expiresAt = now + ttl
                 /\ <<hitCount', missCount'>> = <<hitCount, missCount>>
            [] lastOp'.op = "delete" ->
                 /\ lastOp'.flag
                 /\ MapKeys(cache') = MapKeys(cache) \ {lastOp'.key}
                 /\ <<hitCount', missCount'>> = <<hitCount, missCount>>
            [] lastOp'.op = "clearCache" ->
                 /\ cache' = <<>>
                 /\ <<hitCount', missCount'>> = <<0, 0>>
            [] lastOp'.op = "clearProviderCache" ->
                 /\ \A k \in MapKeys(cache') :
                      MapGet(cache', k).provider # lastOp'.provider
                 /\ Len(cache') < Len(cache)
                 /\ <<hitCount', missCount'>> = <<hitCount, missCount>>
            [] lastOp'.op = "get" ->
                 /\ MapKeys(cache') = MapKeys(cache) \ {lastOp'.key}
                 /\ lastOp'.result = {}
                 /\ <<hitCount', missCount'>> = <<hitCount, missCount + 1>>
            [] OTHER -> FALSE
    ]_vars

\* C10 witness: a set whose save failed has returned.
C10_Witness ==
  /\ lastOp.op = "set"
  /\ lastOp.save = "failed"
  /\ stored # MapValues(cache)

\* C11: a construction whose loadCache fails (the read throws, or the data
\* is corrupt at some entry, others having been loaded before it) returns
\* normally: the failure is caught and logged, and the map starts empty.
C11_LoadFailureStartsEmpty ==
  [][IsCall("constructCorrupt") =>
       /\ cache' = <<>>
       /\ ~lastOp'.threw
       /\ lastOp'.logged]_vars

\* A load that failed part-way, after entries had been set.
C11_Witness ==
  /\ lastOp.op = "constructCorrupt"
  /\ lastOp.loaded > 0
  /\ cache = <<>>

\* Instance id has passed a health check and has not been disposed.
Live(id) == objs[id].passed /\ ~objs[id].disposed

\* The instance map holds id.
Recorded(id) == \E i \in 1..Len(instances) : instances[i][2] = id

\* Caller c's createProvider call returns or throws in this step.
Returns(c) == creating[c].pc # "done" /\ creating'[c].pc = "done"

\* C12: a createProvider call that returns an instance, made (at whatever
\* time) while the map holds a live instance created for the same type and
\* a configuration with the same properties, returns that instance and
\* constructs none.
C12_SecondCreateReuses ==
  [][\A c \in Callers :
       Returns(c) /\ creating'[c].returned # 0 =>
         \A id \in 1..Len(objs) :
           /\ Recorded(id)
           /\ Live(id)
           /\ objs[id].type = creating'[c].type
           /\ SameConfig(objs[id].config, creating'[c].config)
           => /\ creating'[c].returned = id
              /\ creating'[c].provider = 0]_vars

\* C13: the instance key is a function of the type and the configuration's
\* properties: the key computed by a call equals the key under which the
\* map holds any instance of the same type and an equal configuration,
\* whatever the order of the properties and whenever each was computed.
C13_KeyDeterministic ==
  \A c \in Callers : \A i \in 1..Len(instances) :
    /\ creating[c].pc # "idle"
    /\ instances[i][1].type = creating[c].type
    /\ SameConfig(objs[instances[i][2]].config, creating[c].config)
    => instances[i][1] = creating[c].key

\* The hash of the configuration instance id was initialized with.
ConfigHashOf(id) == HashConfig(objs[id].config, 0).hash

\* C14: there is at most one live instance per provider type and
\* configuration hash, and every live instance is in the instance map.
C14_OneLivePerKey ==
  /\ \A id \in 1..Len(objs) : Live(id) => Recorded(id)
  /\ \A id1, id2 \in 1..Len(objs) :
       /\ Live(id1)
       /\ Live(id2)
       /\ objs[id1].type = objs[id2].type
       /\ ConfigHashOf(id1) = ConfigHashOf(id2)
       => id1 = id2

\* C15: once overlapping createProvider calls have all returned, every
\* instance that passed its health check and was not disposed is the one
\* the map holds under its key: none was overwritten and left live.
C15_OverlapLeavesNoneUnrecorded ==
  NoneInFlight => \A id \in 1..Len(objs) : Live(id) => Recorded(id)

\* Event a comes before event b in the sequence evs.
Before(evs, a, b) ==
  \E i, j \in 1..Len(evs) : i < j /\ evs[i] = a /\ evs[j] = b

Starts(c) ==
  /\ creates' = creates + 1
  /\ creating[c].pc \in {"idle", "done"}
  /\ creating'[c].pc # "idle"

\* C17: a createProvider call for a type that is not registered throws a
\* ProviderError carrying that type, constructs nothing, and leaves the
\* instance map, the provider objects and the registered types as they
\* were.
C17_UnknownTypeFails ==
  [][\A c \in Callers :
       Starts(c) /\ creating'[c].type \notin providers =>
         /\ creating'[c].pc = "done"
         /\ creating'[c].error.kind = "ProviderError"
         /\ creating'[c].error.provider = creating'[c].type
         /\ creating'[c].provider = 0
         /\ UNCHANGED <<instances, objs, providers>>]_vars

\* C18: when testConnection of a newly constructed instance returns false,
\* createProvider disposes that instance, throws a ProviderError carrying
\* the type and records nothing; and the instance map never holds an
\* instance that has not passed a health check.
C18_FailedCheckNotRecorded ==
  [][/\ \A c \in Callers :
          /\ creating[c].pc = "testing"
          /\ creating'[c].pc # "testing"
          /\ creating'[c].isWorking = "false"
          => /\ creating'[c].pc = "done"
             /\ creating'[c].returned = 0
             /\ objs'[creating[c].provider].disposed
             /\ creating'[c].error.kind = "ProviderError"
             /\ creating'[c].error.provider = creating[c].type
             /\ instances' = instances
     /\ \A i \in 1..Len(instances') : objs'[instances'[i][2]].passed]_vars

\* A call whose new instance answered false to its health check.
C18_Witness ==
  \E c \in Callers :
    /\ creating[c].pc = "done"
    /\ creating[c].provider # 0
    /\ creating[c].isWorking = "false"
    /\ creating[c].error = ProviderError(creating[c].type, "test")
    /\ objs[creating[c].provider].disposed
    /\ ~Recorded(creating[c].provider)

\* C19: an instance createProvider returns has passed a health check, in
\* that call or an earlier one.
C19_ReturnedPassedCheck ==
  \A c \in Callers :
    creating[c].pc = "done" /\ creating[c].returned # 0 =>
      objs[creating[c].returned].passed

\* A call that returned the instance it found in the map, constructing
\* none.
C19_Witness ==
  \E c \in Callers :
    /\ creating[c].pc = "done"
    /\ creating[c].returned # 0
    /\ creating[c].returned = creating[c].existing
    /\ creating[c].provider = 0

\* C20: when initialize or testConnection of the newly constructed
\* instance throws, createProvider ends as after a failed health check:
\* the instance is disposed, nothing is recorded, and a ProviderError
\* carrying the type is thrown.
C20_ThrowTreatedAsFailedCheck ==
  \A c \in Callers :
    /\ creating[c].pc = "done"
    /\ creating[c].provider # 0
    /\ creating[c].init \in {"ProviderError", "Error"}
         \/ (creating[c].init = "ok" /\ creating[c].isWorking = "throws")
    => /\ objs[creating[c].provider].disposed
       /\ ~Recorded(creating[c].provider)
       /\ creating[c].error.kind = "ProviderError"
       /\ creating[c].error.provider = creating[c].type

\* The step is a registry call of handler op (in the specifications that
\* record them, every other step resets regOp).
IsRegCall(op) == regOp'.op = op

\* C21: unregisterProvider(type) disposes every instance whose key is of
\* the type and deletes its key, deletes the type from the registered types
\* (so that a createProvider of it fails as unknown), and leaves the
\* instances and the registrations of every other type as they were.
C21_UnregisterRemovesType ==
  [][IsRegCall("unregister") =>
       LET type == regOp'.type
       IN  /\ \A i \in 1..Len(instances) :
                LET key == instances[i][1]
                    id == instances[i][2]
                IN  IF KeyOfType(key, type)
                      THEN /\ objs'[id].disposed
                           /\ ~MapHas(instances', key)
                      ELSE /\ MapHas(instances', key)
                           /\ MapGet(instances', key) = id
                           /\ objs'[id] = objs[id]
           /\ MapKeys(instances') \subseteq MapKeys(instances)
           /\ type \notin providers'
           /\ providers' \ {type} = providers \ {type}]_vars

\* C22: dispose() of the registry calls dispose() on every instance in the
\* map and leaves the map empty, also when the dispose() of one or more
\* instances throws: the others are still disposed and no error reaches
\* the caller.
C22_DisposeAllSwallowsErrors ==
  [][IsRegCall("dispose") =>
       /\ \A i \in 1..Len(instances) : objs'[instances[i][2]].disposed
       /\ instances' = <<>>
       /\ regOp'.error = NoError]_vars

\* The registry was disposed with two instances in the map, the dispose()
\* of one of which, at least, threw.
C22_Witness ==
  /\ regOp.op = "dispose"
  /\ regOp.logged >= 1
  /\ instances = <<>>
  /\ Cardinality({id \in 1..Len(objs) :
                    objs[id].passed /\ objs[id].disposed}) >= 2

\* C23: cleanupInstances(maxAge) disposes and removes exactly the instances
\* whose age (the time of the call minus the creation time in the key)
\* exceeds maxAge, and leaves every other instance in the map, undisposed.
C23_CleanupExactlyStale ==
  [][IsRegCall("cleanup") =>
       /\ \A i \in 1..Len(instances) :
            LET key == instances[i][1]
                id == instances[i][2]
            IN  IF now - key.stamp > regOp'.maxAge
                  THEN /\ objs'[id].disposed
                       /\ ~MapHas(instances', key)
                  ELSE /\ MapHas(instances', key)
                       /\ MapGet(instances', key) = id
                       /\ objs'[id] = objs[id]
       /\ MapKeys(instances') \subseteq MapKeys(instances)]_vars

C25_ExpiredGetRemoves ==
  [][IsCall("get") =>
       LET k == lastOp'.key
       IN  IF \E i \in 1..Len(cache) :
                 cache[i][1] = k /\ cache[i][2].expiresAt < now
             THEN /\ cache' = SelectSeq(cache, LAMBDA p : p[1] # k)
                  /\ missCount' = missCount + 1
                  /\ hitCount' = hitCount
                  /\ lastOp'.save \in {"ok", "failed"}
                  /\ lastOp'.result = {}
             ELSE /\ lastOp'.save = "none"
                  /\ cache' = cache
                  /\ stored' = stored
                  /\ pending' = pending]_vars

\* A get has found an expired entry among others, and removed it.
C25_Witness ==
  /\ lastOp.op = "get"
  /\ lastOp.save \in {"ok", "failed"}
  /\ ~MapHas(cache, lastOp.key)
  /\ Len(cache) >= 1
  /\ missCount >= 1

\* C26: has(key) returns true exactly when the key is in the map with an
\* entry that is not expired (get would return it), and changes neither
\* the map (an expired entry it sees stays), nor hitCount or missCount, nor
\* storage.
C26_HasIsPure ==
  [][IsCall("has") =>
       /\ lastOp'.flag <=>
            \E i \in 1..Len(cache) :
               /\ cache[i][1] = lastOp'.key
               /\ ~(cache[i][2].expiresAt < now)
       /\ UNCHANGED <<cache, hitCount, missCount, stored, pending>>]_vars

\* has has answered false for a key whose expired entry is in the map.
C26_Witness ==
  /\ lastOp.op = "has"
  /\ ~lastOp.flag
  /\ MapHas(cache, lastOp.key)

\* C27: delete(key) returns true exactly when the key was in the map, and
\* removes that key only; delete and clearProviderCache start a write to
\* storage (one) exactly when they removed an entry, and otherwise start
\* none and change nothing; neither changes hitCount or missCount.
C27_DeleteWritesIffRemoved ==
  [][/\ IsCall("delete") =>
          /\ lastOp'.flag <=> \E i \in 1..Len(cache) :
                                 cache[i][1] = lastOp'.key
          /\ cache' = SelectSeq(cache, LAMBDA p : p[1] # lastOp'.key)
     /\ (IsCall("delete") \/ IsCall("clearProviderCache")) =>
          /\ lastOp'.save \in {"ok", "failed"} <=> cache' # cache
          /\ cache' = cache => /\ lastOp'.save = "none"
                               /\ stored' = stored
          /\ UNCHANGED <<hitCount, missCount, pending>>]_vars

\* delete has returned true and saved, other entries staying in the map.
C27_Witness ==
  /\ lastOp.op = "delete"
  /\ lastOp.flag
  /\ lastOp.save \in {"ok", "failed"}
  /\ Len(cache) >= 1

\* C28: clearCache() leaves the map empty, sets hitCount and missCount to
\* zero and saves the empty map; no other operation on the cache sets a
\* counter back (a newly constructed cache starts its own at zero).
C28_OnlyClearResetsCounters ==
  [][/\ IsCall("clearCache") =>
          /\ cache' = <<>>
          /\ hitCount' = 0
          /\ missCount' = 0
          /\ lastOp'.save \in {"ok", "failed"}
          /\ lastOp'.save = "ok" => stored' = <<>>
     /\ ~(IsCall("clearCache") \/ IsCall("construct")
                               \/ IsCall("constructCorrupt")) =>
          /\ hitCount' >= hitCount
          /\ missCount' >= missCount]_vars

\* clearCache has emptied a cache that had been used and saved the empty
\* map.
C28_Witness ==
  /\ lastOp.op = "clearCache"
  /\ lastOp.save = "ok"
  /\ calls >= 2
  /\ cache = <<>>
  /\ stored = <<>>
  /\ hitCount = 0
  /\ missCount = 0

\* C29: a cleanup sweep removes every entry whose expiresAt is before the
\* time of the sweep and no other entry, leaves hitCount and missCount as
\* they were, and, when it removed an entry, starts a write of the map it
\* leaves, without waiting for it: storage is not yet written when the
\* sweep returns.
C29_SweepRemovesExpired ==
  [][IsCall("cleanupExpired") =>
       /\ cache' = SelectSeq(cache, LAMBDA p : ~(p[2].expiresAt < now))
       /\ UNCHANGED <<hitCount, missCount, stored>>
       /\ IF cache' # cache
            THEN pending' = Append(pending, MapValues(cache'))
            ELSE pending' = pending]_vars

\* A sweep has removed an entry and kept another, its write in flight.
C29_Witness ==
  /\ lastOp.op = "cleanupExpired"
  /\ Len(lastOp.removed) >= 1
  /\ Len(cache) >= 1
  /\ pending = <<MapValues(cache)>>

\* C30: set gives an entry the expiresAt (time of the set + the TTL
\* configured then), and that never changes while the entry stays in the
\* map: get, delete of other keys, eviction of other keys, cleanup and
\* updateConfig of the TTL leave it as it is; only a set of the same key
\* replaces it, with the TTL in force at that set.
C30_ExpiresAtFixedAtInsertion ==
  [][/\ IsCall("set") =>
          \E j \in 1..Len(cache') :
             /\ cache'[j][1] = lastOp'.key
             /\ cache'[j][2].expiresAt = now + ttl
     /\ ~(IsCall("construct") \/ IsCall("constructCorrupt")) =>
          \A i \in 1..Len(cache), j \in 1..Len(cache') :
             (/\ cache[i][1] = cache'[j][1]
              /\ ~(IsCall("set") /\ lastOp'.key = cache[i][1]))
               => cache'[j][2].expiresAt = cache[i][2].expiresAt]_vars

\* The TTL has been reconfigured while an entry set under another TTL is
\* in the map, with the expiresAt it was given.
C30_Witness ==
  /\ lastOp.op = "updateConfig"
  /\ \E r \in inserted :
        /\ r.ttl # ttl
        /\ MapHas(cache, r.key)
        /\ MapGet(cache, r.key).expiresAt = r.at + r.ttl

\* C31: an eviction pass over n entries removes exactly floor(0.25 * n)
\* entries (the m with 4m <= n < 4m + 4); with maxSize 4 and the entries
\* A(10), B(5), C(20), D(1), setting a fifth key E removes exactly D and
\* leaves the keys A, B, C, E.
C31_EvictionRemovesQuarter ==
  [][((IsCall("set") \/ IsCall("updateConfig")) /\ lastOp'.evictRan) =>
       LET n == Len(cache)
           gone == SeqToSet(lastOp'.evicted)
           m == Cardinality(gone)
           ExampleEntry(k, exp) ==
             <<k, MakeEntry(k, CHOOSE mo \in Motions : TRUE, 0, exp)>>
           ExampleCache ==
             <<ExampleEntry("A", 10), ExampleEntry("B", 5),
               ExampleEntry("C", 20), ExampleEntry("D", 1)>>
           pass == EvictOldEntries(ExampleCache)
       IN  /\ m = Len(lastOp'.evicted)
           /\ 4 * m <= n /\ n < 4 * (m + 1)
           /\ gone \subseteq MapKeys(cache)
           /\ MapKeys(cache') \ {lastOp'.key} =
                (MapKeys(cache) \ gone) \ {lastOp'.key}
           /\ AtCapacity(Len(ExampleCache), 4)
           /\ pass.keysToRemove = <<"D">>
           /\ MapKeys(MapSet(pass.cache, "E", ExampleEntry("E", 30)[2]))
                = {"A", "B", "C", "E"}]_vars

\* The example in the model's keys: a set of a fifth key into a map of
\* four with maxSize 4 has evicted the one entry expiring soonest.
C31_Witness ==
  /\ lastOp.op = "set"
  /\ lastOp.evictRan
  /\ maxSize = 4
  /\ lastOp.evicted = <<"k4">>
  /\ MapKeys(cache) = {"k1", "k2", "k3", "k9"}

RECURSIVE Total(_)
Total(f) ==
  IF DOMAIN f = {} THEN 0
  ELSE LET p == CHOOSE q \in DOMAIN f : TRUE
       IN  f[p] + Total([q \in DOMAIN f \ {p} |-> f[q]])

\* C33: in every reachable state every entry of the map (and of storage)
\* has the provider of its motion as its provider and the key it is stored
\* under as its key, so the counts of getStats' providerBreakdown sum to
\* the size it reports and clearProviderCache selects the entries by their
\* motion's provider.
C33_EntryFieldsConsistent ==
  /\ \A i \in 1..Len(cache) :
       /\ cache[i][2].provider = cache[i][2].motion.provider
       /\ cache[i][2].key = cache[i][1]
  /\ \A i \in 1..Len(stored) :
       stored[i].provider = stored[i].motion.provider
  /\ Total(ProviderBreakdown(cache)) = Len(cache)
  /\ \A p \in Providers :
       SeqToSet(ProviderKeys(cache, p)) =
         {cache[i][1] : i \in {j \in 1..Len(cache) :
                                 cache[j][2].motion.provider = p}}

\* getStats has reported a map with entries of both providers, one of them
\* set in this session.
C33_Witness ==
  /\ lastOp.op = "getStats"
  /\ \E st \in lastOp.result :
        /\ DOMAIN st.providerBreakdown = Providers
        /\ st.size >= 2
  /\ \E r \in inserted : MapHas(cache, r.key)

\* C34: getInstanceStats() reports totalInstances equal to the number of
\* records in the instance map, per-type counts in which each record is
\* counted under the type it was created for (so they sum to
\* totalInstances), and as the oldest instance the least creation time of
\* the records, none when the map is empty; it changes nothing.
C34_StatsCountInstances ==
  [][IsRegCall("stats") =>
       /\ \E st \in regOp'.result :
            /\ regOp'.result = {st}
            /\ st.totalInstances = Len(instances)
            /\ \A type \in ProviderTypes :
                 LET created == {i \in 1..Len(instances) :
                                   objs[instances[i][2]].type = type}
                 IN  IF created = {}
                       THEN type \notin DOMAIN st.providerCounts
                       ELSE /\ type \in DOMAIN st.providerCounts
                            /\ st.providerCounts[type] = Cardinality(created)
            /\ Total(st.providerCounts) = st.totalInstances
            /\ IF instances = <<>>
                 THEN st.oldestInstance = {}
                 ELSE \E i \in 1..Len(instances) :
                        /\ st.oldestInstance = {instances[i][1].stamp}
                        /\ \A j \in 1..Len(instances) :
                             instances[i][1].stamp <= instances[j][1].stamp
       /\ UNCHANGED <<providers, instances, objs, creating>>]_vars

\* getInstanceStats has reported instances of two types, created at
\* different times.
C34_Witness ==
  /\ regOp.op = "stats"
  /\ \E st \in regOp.result :
        /\ DOMAIN st.providerCounts = ProviderTypes
        /\ \E i \in 1..Len(instances) :
              {instances[i][1].stamp} # st.oldestInstance

\* C35: when set calls are started without awaiting one another, the
\* number of entries does not exceed maxSize once all of them have
\* returned.
C35_OverlappingSetsBounded ==
  NoSetInFlight => Len(cache) <= maxSize

\* C36: get, has and loadCache apply the same test to an entry: at every
\* time, the time an entry expires at included, loadCache keeps an entry
\* exactly when has is true for it and get returns its motion.
C36_SameLivenessTest ==
  \A e \in SeqToSet(MapValues(cache)) \cup SeqToSet(stored) :
     /\ LoadKeeps(e, now) <=> HasLive(e, now)
     /\ HasLive(e, now) <=> ~IsExpired(e, now)

\* C37: createProvider never returns an instance on which dispose() has
\* been called, and never records one: not either when dispose(),
\* unregisterProvider or cleanupInstances ran while the call was suspended
\* at an await.
C37_NeverReturnsDisposed ==
  [][\A c \in Callers :
       Returns(c) =>
         /\ creating'[c].returned # 0 =>
              ~objs'[creating'[c].returned].disposed
         /\ \A i \in 1..Len(instances') :
              (instances'[i][2] = creating'[c].provider
                 /\ ~Recorded(creating'[c].provider))
                => ~objs'[instances'[i][2]].disposed]_vars

\* C38: in every reachable state of the registry no instance on which
\* dispose() has been called is still recorded in the instance map, an
\* instance whose dispose() threw during unregisterProvider or
\* cleanupInstances included.
C38_NoDisposedRecorded ==
  \A i \in 1..Len(instances) : ~objs[instances[i][2]].disposed

\* C39: when saves overlap (the un-awaited save of cleanupExpired or of
\* dispose in flight together with the save of a set) and complete in
\* either order, then at the step that completes the last of them the
\* array in storage is the array of the map in memory: an older array
\* never replaces a newer one.
C39_LastWriteIsNewest ==
  [][(lastOp'.op \in {"writeDone", "setDone"}
        /\ pending' = <<>>
        /\ \A c \in Callers : setting'[c].pc = "idle")
       => stored' = MapValues(cache')]_vars

\* C40: a provider is usable only between a successful initialize and
\* dispose: on a provider that is not initialized (never initialized, its
\* initialize failed validation, or disposed) calculateMotion throws a
\* ProviderError and testConnection returns false.
C40_UnusableOutsideLifetime ==
  [][(regOp'.op \in {"calculateMotion", "testConnection"}
        /\ ~regOp'.made[1].isInitialized)
       => IF regOp'.op = "calculateMotion"
            THEN regOp'.error.kind = "ProviderError"
            ELSE regOp'.result = {FALSE}]_vars

====
